---- MODULE Spec2Model ----
(***************************************************************************)
(* Rating and statistics engine of the ping-pong tracker                   *)
(* (stats_calculator.py) together with the ingestion step that builds the  *)
(* match log it reads (parse_ping_pong_matches.py, the /parse route of     *)
(* ping_pong_web.py).                                                      *)
(*                                                                         *)
(* Numbers.  Python floats are modelled in fixed point: a rating r is the  *)
(* integer r * Scale, a probability p is the integer p * Scale.  With      *)
(* these units K * (res - e) is the integer K * (res*Scale - e*Scale), so  *)
(* the baseline update is exact.  10 ** (x / 400) is tabulated every ten   *)
(* rating points and interpolated linearly in between.                     *)
(***************************************************************************)
EXTENDS Integers, Sequences, FiniteSets, TLC

VARIABLES data, response

vars == <<data, response>>

(***************************************************************************)
(* Bounds of the model                                                     *)
(***************************************************************************)
MaxMatches == 3
MaxLong == 12

(***************************************************************************)
(* Program constants                                                       *)
(***************************************************************************)
Scale == 10000
DefaultRating == 1500 * Scale
K == 24
MIN_MATCHES == 3
base_k == 32
TopN == 10
modes == <<"overall", "singles", "doubles">>
Modes == {"overall", "singles", "doubles"}

(***************************************************************************)
(* Generic helpers                                                         *)
(***************************************************************************)
Min(a, b) == IF a < b THEN a ELSE b
Max(a, b) == IF a > b THEN a ELSE b

\* dict.get(key, default)
Get(f, k, default) == IF k \in DOMAIN f THEN f[k] ELSE default

\* dict[key] = value
Put(f, k, v) == (k :> v) @@ f

EmptyDict == [x \in {} |-> 0]

\* division rounded to the nearest integer (den > 0), halves away from -oo
RoundDiv(num, den) == (2 * num + den) \div (2 * den)

RECURSIVE SumOver(_, _)
SumOver(f, S) ==
    IF S = {} THEN 0
    ELSE LET x == CHOOSE y \in S : TRUE IN f[x] + SumOver(f, S \ {x})

\* round(r, 1): a rating in Scale units to tenths of a point, ties to even
Round1(r) ==
    LET unit == Scale \div 10
        q == r \div unit
        rem == r - q * unit
    IN  IF 2 * rem > unit THEN q + 1
        ELSE IF 2 * rem < unit THEN q
        ELSE IF q % 2 = 0 THEN q ELSE q + 1

(***************************************************************************)
(* Elo expectation 1.0 / (1.0 + 10 ** ((r_b - r_a) / 400.0))               *)
(***************************************************************************)
KnotStep == 10 * Scale
KnotMax == 80

\* ExpectTable[k + KnotMax + 1] = Scale / (1 + 10 ** (10 * k / 400)), k in -80..80
ExpectTable ==
  << 9901, 9895, 9889, 9883, 9876, 9868, 9861, 9853, 9844, 9835, 9825, 9815,
     9804, 9793, 9781, 9768, 9755, 9741, 9726, 9710, 9693, 9676, 9657, 9638,
     9617, 9595, 9572, 9548, 9523, 9496, 9468, 9438, 9406, 9374, 9339, 9302,
     9264, 9224, 9182, 9137, 9091, 9042, 8991, 8938, 8882, 8823, 8762, 8698,
     8632, 8563, 8490, 8415, 8337, 8255, 8171, 8083, 7992, 7898, 7801, 7701,
     7597, 7491, 7381, 7268, 7153, 7034, 6912, 6788, 6661, 6532, 6401, 6267,
     6131, 5994, 5855, 5715, 5573, 5431, 5288, 5144, 5000, 4856, 4712, 4569,
     4427, 4285, 4145, 4006, 3869, 3733, 3599, 3468, 3339, 3212, 3088, 2966,
     2847, 2732, 2619, 2509, 2403, 2299, 2199, 2102, 2008, 1917, 1829, 1745,
     1663, 1585, 1510, 1437, 1368, 1302, 1238, 1177, 1118, 1062, 1009, 958,
     909, 863, 818, 776, 736, 698, 661, 626, 594, 562, 532, 504,
     477, 452, 428, 405, 383, 362, 343, 324, 307, 290, 274, 259,
     245, 232, 219, 207, 196, 185, 175, 165, 156, 147, 139, 132,
     124, 117, 111, 105, 99 >>

\* logistic expectation of a side whose opponent is d = r_b - r_a ahead
Logistic(d) ==
    IF d >= KnotMax * KnotStep THEN ExpectTable[2 * KnotMax + 1]
    ELSE IF d <= -(KnotMax * KnotStep) THEN ExpectTable[1]
    ELSE LET j == d \div KnotStep
             frac == d - j * KnotStep
             lo == ExpectTable[j + KnotMax + 1]
             hi == ExpectTable[j + KnotMax + 2]
         IN  lo + RoundDiv((hi - lo) * frac, KnotStep)

expect(r_a, r_b) == Logistic(r_b - r_a)

(***************************************************************************)
(* Dates.  datetime.strptime(d, "%Y-%m-%d") is the position of d on the    *)
(* calendar, 0 standing for ValueError.                                    *)
(***************************************************************************)
Calendar == <<"2025-09-01", "2025-09-02", "2025-09-03">>

strptime(d) ==
    IF \E i \in 1..Len(Calendar) : Calendar[i] = d
    THEN CHOOSE i \in 1..Len(Calendar) : Calendar[i] = d
    ELSE 0

(***************************************************************************)
(* Ingestion: parse_ping_pong_matches                                      *)
(*                                                                         *)
(* A line is the list of its shlex parts.  The last part, the result, is   *)
(* either a score n-m, [kind |-> "score", a |-> n, b |-> m, text |-> ""],  *)
(* or a word, [kind |-> "word", a |-> 0, b |-> 0, text |-> w].             *)
(***************************************************************************)
ScoreTok(n, m) == [kind |-> "score", a |-> n, b |-> m, text |-> ""]
WordTok(w) == [kind |-> "word", a |-> 0, b |-> 0, text |-> w]
Line(names, tok) == [names |-> names, result |-> tok]

\* str.upper() on the words of the model
upper(w) ==
    CASE w = "w" -> "W"
      [] w = "l" -> "L"
      [] w = "p1" -> "P1"
      [] w = "p2" -> "P2"
      [] w = "t1" -> "T1"
      [] w = "t2" -> "T2"
      [] w = "win" -> "WIN"
      [] OTHER -> w

\* re.match(r'[WwLlPpTt][12]?', w): a prefix match, so any word that
\* starts with one of the eight letters matches
win_loss_match(w) ==
    w \in {"W", "L", "P1", "P2", "T1", "T2", "w", "l", "p1", "p2", "t1", "t2",
           "win", "WIN", "P3", "T", "P", "W1", "L2"}

NoId == <<>>

\* the match record of one line as a one-element list, or the empty list
\* when the line is rejected; id stands for the fresh uuid4 of the record
ParseLine(line, id) ==
    LET parts == line.names
        tok == line.result
        is_score == tok.kind = "score"
        is_wl == tok.kind = "word" /\ win_loss_match(tok.text)
        one_nil == is_score /\ ((tok.a = 1 /\ tok.b = 0) \/ (tok.a = 0 /\ tok.b = 1))
        win_indicator == upper(tok.text)
        result_type == IF is_score /\ ~one_nil THEN "score" ELSE "winloss"
        result_value ==
            IF is_score THEN (IF one_nil THEN (IF tok.a > tok.b THEN "W" ELSE "L") ELSE "")
            ELSE win_indicator
        team1_score ==
            IF is_score THEN tok.a
            ELSE IF win_indicator \in {"W", "P1", "T1"} THEN 1 ELSE 0
        team2_score ==
            IF is_score THEN tok.b
            ELSE IF win_indicator \in {"W", "P1", "T1"} THEN 0 ELSE 1
    IN  IF Len(parts) + 1 < 3 THEN <<>>
        ELSE IF ~is_score /\ ~is_wl THEN <<>>
        ELSE IF Len(parts) = 2 THEN
           <<[id |-> id, type |-> "singles",
             player1 |-> parts[1], player2 |-> parts[2],
             team1 |-> [server |-> "", partner |-> ""],
             team2 |-> [receiver |-> "", partner |-> ""],
             score |-> [player1 |-> team1_score, player2 |-> team2_score,
                        team1 |-> 0, team2 |-> 0],
             result_type |-> result_type, result_value |-> result_value]>>
        ELSE IF Len(parts) = 4 THEN
           <<[id |-> id, type |-> "doubles",
             player1 |-> "", player2 |-> "",
             team1 |-> [server |-> parts[1], partner |-> parts[2]],
             team2 |-> [receiver |-> parts[3], partner |-> parts[4]],
             score |-> [player1 |-> 0, player2 |-> 0,
                        team1 |-> team1_score, team2 |-> team2_score],
             result_type |-> result_type, result_value |-> result_value]>>
        ELSE <<>>

\* the matches of the lines text[i..], the i-th line carrying id <<date, i>>
RECURSIVE ParseLines(_, _, _)
ParseLines(date, text, i) ==
    IF i > Len(text) THEN <<>>
    ELSE ParseLine(text[i], <<date, i>>) \o ParseLines(date, text, i + 1)

\* date_str is the first line; a first line that is no date is replaced by
\* today's date, which the model does not feed (the /parse route validates
\* the date before calling the parser)
parse_ping_pong_matches(date, text) ==
    [date |-> date, matches |-> ParseLines(date, text, 1)]

(***************************************************************************)
(* Flattening of the log                                                   *)
(***************************************************************************)
\* [(date, match) for day_data in data for match in day_data['matches']]
RECURSIVE Flatten(_)
Flatten(d) ==
    IF d = <<>> THEN <<>>
    ELSE LET day == Head(d)
         IN  [i \in 1..Len(day.matches) |-> [date |-> day.date, match |-> day.matches[i]]]
             \o Flatten(Tail(d))

\* list.sort(key=...): the stable sort of s by the integer keys key[i] of s[i]
StableSort(s, key) ==
    LET n == Len(s)
        k == SubSeq(key, 1, n)
        rank == SubSeq([i \in 1..n |->
                    1 + Cardinality({j \in 1..n :
                            k[j] < k[i] \/ (k[j] = k[i] /\ j < i)})], 1, n)
    IN  SubSeq([r \in 1..n |-> s[CHOOSE i \in 1..n : rank[i] = r]], 1, n)

(***************************************************************************)
(* Baseline engine: get_elo_ratings_and_history                            *)
(*                                                                         *)
(* The state of the fold holds, per mode, the ratings dict, the            *)
(* matches_played counters and the daily_history lists.                    *)
(***************************************************************************)
PerMode(x) == [overall |-> x, singles |-> x, doubles |-> x]

\* EloInit with the tables of the report handed out before left in place
EloInitCarried ==
    IF response.fn = "get_all_statistics" /\ response.value.error = ""
    THEN [ratings |-> [mode \in {"overall", "singles", "doubles"} |->
                          response.value.elo_ratings[mode].current_ratings],
          matches_played |-> PerMode(EmptyDict),
          daily_history |-> PerMode(EmptyDict)]
    ELSE [ratings |-> PerMode(EmptyDict),
          matches_played |-> PerMode(EmptyDict),
          daily_history |-> PerMode(EmptyDict)]

EloInit ==
    [ratings |-> PerMode(EmptyDict),
     matches_played |-> PerMode(EmptyDict),
     daily_history |-> PerMode(EmptyDict)]

\* get_r(mode, player) == ratings[mode].get(player, 1500.0), on one dict
get_r(ratings, player) == Get(ratings, player, DefaultRating)

\* matches_played[mode][p] += 1 on a defaultdict(int)
Bump(played, p) == Put(played, p, Get(played, p, 0) + 1)

\* res1 of a singles match: 1 or 0, and -1 where the code does `continue`
SinglesRes(m) ==
    IF m.result_type = "score"
    THEN (IF m.score.player1 > m.score.player2 THEN 1 ELSE 0)
    ELSE LET rv == upper(m.result_value)
         IN  IF rv \in {"W", "P1"} THEN 1
             ELSE IF rv \in {"L", "P2"} THEN 0
             ELSE -1

\* DoublesRes with the indicators of the singles branch
DoublesResSinglesWords(m) ==
    IF m.result_type = "score"
    THEN (IF m.score.team1 > m.score.team2 THEN 1 ELSE 0)
    ELSE LET rv == upper(m.result_value)
         IN  IF rv \in {"W", "P1"} THEN 1
             ELSE IF rv \in {"L", "P2"} THEN 0
             ELSE -1

\* res1 of a doubles match
DoublesRes(m) ==
    IF m.result_type = "score"
    THEN (IF m.score.team1 > m.score.team2 THEN 1 ELSE 0)
    ELSE LET rv == upper(m.result_value)
         IN  IF rv \in {"T1", "W"} THEN 1
             ELSE IF rv \in {"T2", "L"} THEN 0
             ELSE -1

\* SinglesRatings with a larger K for the opening match of a pool
SinglesRatingsOpeningK(ratings, p1, p2, res1) ==
    LET r1 == get_r(ratings, p1)
        r2 == get_r(ratings, p2)
        e1 == expect(r1, r2)
        k == IF DOMAIN ratings = {} THEN base_k ELSE K
        delta == k * (res1 * Scale - e1)
    IN  Put(Put(ratings, p1, r1 + delta), p2, r2 - delta)

\* SinglesRatings with the second player moved by half the delta
SinglesRatingsHalfLoser(ratings, p1, p2, res1) ==
    LET r1 == get_r(ratings, p1)
        r2 == get_r(ratings, p2)
        e1 == expect(r1, r2)
        delta == K * (res1 * Scale - e1)
    IN  Put(Put(ratings, p1, r1 + delta), p2, r2 - (delta \div 2))

\* the singles update of one rating pool: the two set_r calls in order
SinglesRatings(ratings, p1, p2, res1) ==
    LET r1 == get_r(ratings, p1)
        r2 == get_r(ratings, p2)
        e1 == expect(r1, r2)
        delta == K * (res1 * Scale - e1)
    IN  Put(Put(ratings, p1, r1 + delta), p2, r2 - delta)

\* the doubles update of one rating pool: the team expectation is taken
\* before the first set_r, every set_r reads the rating again
DoublesRatings(ratings, t1s, t1p, t2r, t2p, res1) ==
    LET r_t1 == (get_r(ratings, t1s) + get_r(ratings, t1p)) \div 2
        r_t2 == (get_r(ratings, t2r) + get_r(ratings, t2p)) \div 2
        e1 == expect(r_t1, r_t2)
        delta_team == K * (res1 * Scale - e1)
        a == Put(ratings, t1s, get_r(ratings, t1s) + delta_team)
        b == Put(a, t1p, get_r(a, t1p) + delta_team)
        c == Put(b, t2r, get_r(b, t2r) - delta_team)
    IN  Put(c, t2p, get_r(c, t2p) - delta_team)

\* SinglesStep with the delta of the overall pool applied to the singles pool
SinglesStepSharedDelta(st, m) ==
    LET p1 == m.player1
        p2 == m.player2
        res1 == SinglesRes(m)
        delta == K * (res1 * Scale
                        - expect(get_r(st.ratings.overall, p1), get_r(st.ratings.overall, p2)))
    IN  IF p1 = "" \/ p2 = "" THEN st
        ELSE IF res1 = -1 THEN st
        ELSE [st EXCEPT
                !.ratings.overall = SinglesRatings(@, p1, p2, res1),
                !.matches_played.overall = Bump(Bump(@, p1), p2),
                !.ratings.singles = Put(Put(@, p1, get_r(@, p1) + delta), p2, get_r(@, p2) - delta),
                !.matches_played.singles = Bump(Bump(@, p1), p2)]

\* one iteration of the inner loop on a singles match
SinglesStep(st, m) ==
    LET p1 == m.player1
        p2 == m.player2
        res1 == SinglesRes(m)
    IN  IF p1 = "" \/ p2 = "" THEN st
        ELSE IF res1 = -1 THEN st
        ELSE [st EXCEPT
                !.ratings.overall = SinglesRatings(@, p1, p2, res1),
                !.matches_played.overall = Bump(Bump(@, p1), p2),
                !.ratings.singles = SinglesRatings(@, p1, p2, res1),
                !.matches_played.singles = Bump(Bump(@, p1), p2)]

\* one iteration of the inner loop on a doubles match
DoublesStep(st, m) ==
    LET t1s == m.team1.server
        t1p == m.team1.partner
        t2r == m.team2.receiver
        t2p == m.team2.partner
        res1 == DoublesRes(m)
    IN  IF t1s = "" \/ t1p = "" \/ t2r = "" \/ t2p = "" THEN st
        ELSE IF res1 = -1 THEN st
        ELSE [st EXCEPT
                !.ratings.overall = DoublesRatings(@, t1s, t1p, t2r, t2p, res1),
                !.matches_played.overall = Bump(Bump(Bump(Bump(@, t1s), t1p), t2r), t2p),
                !.ratings.doubles = DoublesRatings(@, t1s, t1p, t2r, t2p, res1),
                !.matches_played.doubles = Bump(Bump(Bump(Bump(@, t1s), t1p), t2r), t2p)]

EloStep(st, m) ==
    IF m.type = "singles" THEN SinglesStep(st, m)
    ELSE IF m.type = "doubles" THEN DoublesStep(st, m)
    ELSE st

\* end of day: every eligible player's rating is recorded under the date
EndOfDay(st, date) ==
    [st EXCEPT !.daily_history =
        [mode \in Modes |->
            LET eligible == {p \in DOMAIN st.ratings[mode] :
                                Get(st.matches_played[mode], p, 0) >= MIN_MATCHES}
                old == st.daily_history[mode]
            IN  [p \in (DOMAIN old) \cup eligible |->
                    IF p \in eligible
                    THEN Append(Get(old, p, <<>>),
                                [date |-> date, rating |-> Round1(st.ratings[mode][p])])
                    ELSE old[p]]]]

\* the keys of matches_by_date in insertion order
RECURSIVE DateKeys(_)
DateKeys(flat) ==
    IF flat = <<>> THEN <<>>
    ELSE LET front == DateKeys(SubSeq(flat, 1, Len(flat) - 1))
             d == flat[Len(flat)].date
         IN  IF \E i \in 1..Len(front) : front[i] = d THEN front ELSE Append(front, d)

\* the non-empty keys: [d for d in matches_by_date.keys() if d]
NonEmptyDates(flat) == SelectSeq(DateKeys(flat), LAMBDA d : d # "")

\* sorted(..., key=lambda x: datetime.strptime(x, "%Y-%m-%d")) raises
\* ValueError on a key that is no date
SortRaises(flat) == \E i \in 1..Len(NonEmptyDates(flat)) : strptime(NonEmptyDates(flat)[i]) = 0

sorted_dates(flat) ==
    LET keys == NonEmptyDates(flat)
    IN  StableSort(keys, [i \in 1..Len(keys) |-> strptime(keys[i])])

\* the matches in the order the two nested loops visit them
RECURSIVE VisitOrder(_, _)
VisitOrder(dates, flat) ==
    IF dates = <<>> THEN <<>>
    ELSE SelectSeq(flat, LAMBDA x : x.date = Head(dates)) \o VisitOrder(Tail(dates), flat)

\* BaselineChron without the sort: the dates in the order the log has them
BaselineChronLogOrder(d) ==
    LET flat == Flatten(d)
    IN  IF SortRaises(flat) THEN <<>> ELSE VisitOrder(NonEmptyDates(flat), flat)

BaselineChron(d) ==
    LET flat == Flatten(d)
    IN  IF SortRaises(flat) THEN <<>> ELSE VisitOrder(sorted_dates(flat), flat)

\* the state of the fold after the first n matches of chron (with the
\* end-of-day records of every date that is finished by then)
RECURSIVE EloFold(_, _)
EloFold(chron, n) ==
    IF n = 0 THEN EloInit
    ELSE LET s1 == EloStep(EloFold(chron, n - 1), chron[n].match)
         IN  IF n = Len(chron) \/ chron[n + 1].date # chron[n].date
             THEN EndOfDay(s1, chron[n].date)
             ELSE s1

\* by_date/last/out: the history of one player carried forward over the dates
RECURSIVE Densify(_, _, _)
Densify(entries, dates, last) ==
    IF dates = <<>> THEN <<>>
    ELSE LET d == Head(dates)
             hit == {i \in 1..Len(entries) : entries[i].date = d}
             cur == IF hit # {}
                    THEN <<entries[CHOOSE i \in hit : \A j \in hit : j <= i].rating>>
                    ELSE last
         IN  (IF cur # <<>> THEN <<[date |-> d, rating |-> cur[1]]>> ELSE <<>>)
             \o Densify(entries, Tail(dates), cur)

\* result[mode] of a finished fold
ModeResult(st, mode, dates) ==
    LET played == st.matches_played[mode]
        hist == st.daily_history[mode]
        full == [p \in DOMAIN hist |-> Densify(hist[p], dates, <<>>)]
    IN  [current_ratings |->
            [p \in {q \in DOMAIN played : played[q] >= MIN_MATCHES} |->
                Round1(st.ratings[mode][p])],
         history |-> [p \in {q \in DOMAIN full : full[q] # <<>>} |-> full[p]]]

get_elo_ratings_and_history(d) ==
    LET flat == Flatten(d)
        chron == BaselineChron(d)
        st == EloFold(chron, Len(chron))
    IN  IF SortRaises(flat)
        THEN [error |-> "ValueError", result |-> PerMode([current_ratings |-> EmptyDict, history |-> EmptyDict])]
        ELSE [error |-> "",
              result |-> [mode \in Modes |-> ModeResult(st, mode, sorted_dates(flat))]]

(***************************************************************************)
(* Expected-probability pass: get_match_expected_map                       *)
(***************************************************************************)
\* _key: the parsed date, datetime.max for a date that does not parse
DateMaxKey == Len(Calendar) + 1
ExpectedKey(item) == IF strptime(item.date) = 0 THEN DateMaxKey ELSE strptime(item.date)

ExpectedChron(d) ==
    LET chron == Flatten(d)
    IN  StableSort(chron, [i \in 1..Len(chron) |-> ExpectedKey(chron[i])])

ExpInit == [ratings |-> EmptyDict, expected_map |-> EmptyDict]

ExpSingles(st, m) ==
    LET p1 == m.player1
        p2 == m.player2
        r1 == get_r(st.ratings, p1)
        r2 == get_r(st.ratings, p2)
        e1 == expect(r1, r2)
        e2 == Scale - e1
        res1 == SinglesRes(m)
        delta == K * (res1 * Scale - e1)
        emap == Put(st.expected_map, m.id,
                    [type |-> "singles", expected_1 |-> e1, expected_2 |-> e2])
    IN  IF p1 = "" \/ p2 = "" THEN st
        ELSE IF res1 = -1 THEN [st EXCEPT !.expected_map = emap]
        ELSE [ratings |-> Put(Put(st.ratings, p1, r1 + delta), p2, r2 - delta),
              expected_map |-> emap]

ExpDoubles(st, m) ==
    LET t1s == m.team1.server
        t1p == m.team1.partner
        t2r == m.team2.receiver
        t2p == m.team2.partner
        r1s == get_r(st.ratings, t1s)
        r1p == get_r(st.ratings, t1p)
        r2r == get_r(st.ratings, t2r)
        r2p == get_r(st.ratings, t2p)
        e1 == expect((r1s + r1p) \div 2, (r2r + r2p) \div 2)
        e2 == Scale - e1
        res1 == DoublesRes(m)
        delta_team == K * (res1 * Scale - e1)
        emap == Put(st.expected_map, m.id,
                    [type |-> "doubles", expected_1 |-> e1, expected_2 |-> e2])
    IN  IF t1s = "" \/ t1p = "" \/ t2r = "" \/ t2p = "" THEN st
        ELSE IF res1 = -1 THEN [st EXCEPT !.expected_map = emap]
        ELSE [ratings |-> Put(Put(Put(Put(st.ratings, t1s, r1s + delta_team),
                                      t1p, r1p + delta_team),
                                  t2r, r2r - delta_team),
                              t2p, r2p - delta_team),
              expected_map |-> emap]

\* a match without id is skipped before anything else
ExpStep(st, m) ==
    IF m.id = NoId THEN st
    ELSE IF m.type = "singles" THEN ExpSingles(st, m)
    ELSE IF m.type = "doubles" THEN ExpDoubles(st, m)
    ELSE st

RECURSIVE ExpFold(_, _)
ExpFold(chron, n) ==
    IF n = 0 THEN ExpInit ELSE ExpStep(ExpFold(chron, n - 1), chron[n].match)

get_match_expected_map(d) ==
    LET chron == ExpectedChron(d) IN ExpFold(chron, Len(chron)).expected_map

(***************************************************************************)
(* Hybrid pass: get_hybrid_elo_ratings                                     *)
(***************************************************************************)
\* the date strings of the model in str order (all_matches.sort by x['date'])
LexOrder == <<"", "1970-01-01", "2025-09-01", "2025-09-02", "2025-09-03", "2025-13-40">>
LexKey(item) == CHOOSE i \in 1..Len(LexOrder) : LexOrder[i] = item.date

HybridChron(d) ==
    LET all_matches == Flatten(d)
    IN  StableSort(all_matches, [i \in 1..Len(all_matches) |-> LexKey(all_matches[i])])

HybridInit == PerMode(EmptyDict)

\* three times the k_factor: base_k * (1 + min(score_diff / 3, 2)) on a real
\* score, base_k on a win/loss record (score1 + score2 <= 1)
KFactor3(score1, score2) ==
    LET score_diff == IF score1 > score2 THEN score1 - score2 ELSE score2 - score1
    IN  IF score1 + score2 > 1 THEN base_k * (3 + Min(score_diff, 6))
        ELSE base_k * 3

\* k_factor * (s - e), and the same divided by two
HybridDelta(k3, s, e) == RoundDiv(k3 * (s * Scale - e), 3)
HybridHalfDelta(k3, s, e) == RoundDiv(k3 * (s * Scale - e), 6)

\* q_a / (q_a + q_b) with q = 10 ** (r / 400)
QShare(r_a, r_b) == Logistic(r_b - r_a)

HybridSinglesPool(ratings, p1, p2, s1, s2, k3) ==
    LET r1 == Get(ratings, p1, DefaultRating)
        r2 == Get(ratings, p2, DefaultRating)
        e1 == QShare(r1, r2)
        e2 == QShare(r2, r1)
    IN  Put(Put(ratings, p1, r1 + HybridDelta(k3, s1, e1)),
            p2, r2 + HybridDelta(k3, s2, e2))

\* HybridSingles that keeps the rating of a singles match in the overall
\* pool only
HybridSinglesOverallOnly(elo, m) ==
    LET p1 == m.player1
        p2 == m.player2
        score1 == m.score.player1
        score2 == m.score.player2
        s1 == IF score1 > score2 THEN 1 ELSE 0
        s2 == 1 - s1
        k3 == KFactor3(score1, score2)
    IN  IF p1 = "" \/ p2 = "" THEN elo
        ELSE [elo EXCEPT
                !.overall = HybridSinglesPool(@, p1, p2, s1, s2, k3)]

HybridSingles(elo, m) ==
    LET p1 == m.player1
        p2 == m.player2
        score1 == m.score.player1
        score2 == m.score.player2
        s1 == IF score1 > score2 THEN 1 ELSE 0
        s2 == 1 - s1
        k3 == KFactor3(score1, score2)
    IN  IF p1 = "" \/ p2 = "" THEN elo
        ELSE [elo EXCEPT
                !.singles = HybridSinglesPool(@, p1, p2, s1, s2, k3),
                !.overall = HybridSinglesPool(@, p1, p2, s1, s2, k3)]

\* elo_ratings[mode][player] += change
AddTo(ratings, player, change) == Put(ratings, player, ratings[player] + change)

HybridDoublesPool(ratings, t1s, t1p, t2r, t2p, s1, s2, k3) ==
    LET init == [p \in (DOMAIN ratings) \cup {t1s, t1p, t2r, t2p} |->
                    Get(ratings, p, DefaultRating)]
        r_team1 == (init[t1s] + init[t1p]) \div 2
        r_team2 == (init[t2r] + init[t2p]) \div 2
        e1 == QShare(r_team1, r_team2)
        e2 == QShare(r_team2, r_team1)
        d1 == HybridHalfDelta(k3, s1, e1)
        d2 == HybridHalfDelta(k3, s2, e2)
    IN  AddTo(AddTo(AddTo(AddTo(init, t1s, d1), t1p, d1), t2r, d2), t2p, d2)

HybridDoubles(elo, m) ==
    LET t1s == m.team1.server
        t1p == m.team1.partner
        t2r == m.team2.receiver
        t2p == m.team2.partner
        score1 == m.score.team1
        score2 == m.score.team2
        s1 == IF score1 > score2 THEN 1 ELSE 0
        s2 == 1 - s1
        k3 == KFactor3(score1, score2)
    IN  IF t1s = "" \/ t1p = "" \/ t2r = "" \/ t2p = "" THEN elo
        ELSE [elo EXCEPT
                !.doubles = HybridDoublesPool(@, t1s, t1p, t2r, t2p, s1, s2, k3),
                !.overall = HybridDoublesPool(@, t1s, t1p, t2r, t2p, s1, s2, k3)]

HybridStep(elo, m) ==
    IF m.type = "singles" THEN HybridSingles(elo, m)
    ELSE IF m.type = "doubles" THEN HybridDoubles(elo, m)
    ELSE elo

RECURSIVE HybridFold(_, _)
HybridFold(chron, n) ==
    IF n = 0 THEN HybridInit ELSE HybridStep(HybridFold(chron, n - 1), chron[n].match)

\* the pass with a window that is applied: only the last window_size matches
\* are folded
get_hybrid_elo_ratingsWindowed(d, window_size) ==
    LET chron == HybridChron(d)
        recent == SubSeq(chron, Max(1, Len(chron) - window_size + 1), Len(chron))
    IN  HybridFold(recent, Len(recent))

\* window_size is accepted and never used: the sliding-window branch is `pass`
get_hybrid_elo_ratings(d, window_size) ==
    LET chron == HybridChron(d) IN HybridFold(chron, Len(chron))

(***************************************************************************)
(* Upset detector: get_biggest_upsets                                      *)
(***************************************************************************)
\* round(p * 100, 1) of a probability p, in tenths of a percent, ties to even
RoundPct(p) ==
    LET num == p * 1000
        q == num \div Scale
        rem == num - q * Scale
    IN  IF 2 * rem > Scale THEN q + 1
        ELSE IF 2 * rem < Scale THEN q
        ELSE IF q % 2 = 0 THEN q ELSE q + 1

Half == Scale \div 2

\* the value stored under 'winner_win_prob' for a winner of expectation e
WinnerWinProb(e) == RoundPct(Scale - e)

\* the dict appended for a winner whose expectation e is below 0.5
UpsetEntry(date, winner, loser, wscore, lscore, e) ==
    [date |-> date, winner |-> winner, loser |-> loser,
     score |-> <<wscore, lscore>>,
     winner_win_prob |-> WinnerWinProb(e),
     upset_magnitude |-> RoundPct(Half - e)]

\* UpsetOf with a winner of expectation 0.5 taken for an upset as well
UpsetOfAtMostHalf(item, expected_map, kind) ==
    LET m == item.match
        has == m.id \in DOMAIN expected_map /\ expected_map[m.id].type = kind
        exp == expected_map[m.id]
        side1 == IF kind = "singles" THEN m.player1
                 ELSE <<m.team1.server, m.team1.partner>>
        side2 == IF kind = "singles" THEN m.player2
                 ELSE <<m.team2.receiver, m.team2.partner>>
        score1 == IF kind = "singles" THEN m.score.player1 ELSE m.score.team1
        score2 == IF kind = "singles" THEN m.score.player2 ELSE m.score.team2
    IN  IF m.type # kind THEN <<>>
        ELSE IF score1 > score2 /\ has /\ exp.expected_1 <= Half
        THEN <<UpsetEntry(item.date, side1, side2, score1, score2, exp.expected_1)>>
        ELSE IF score2 > score1 /\ has /\ exp.expected_2 <= Half
        THEN <<UpsetEntry(item.date, side2, side1, score2, score1, exp.expected_2)>>
        ELSE <<>>

\* the entries one match appends to the list of its kind (none or one)
UpsetOf(item, expected_map, kind) ==
    LET m == item.match
        has == m.id \in DOMAIN expected_map /\ expected_map[m.id].type = kind
        exp == expected_map[m.id]
        side1 == IF kind = "singles" THEN m.player1
                 ELSE <<m.team1.server, m.team1.partner>>
        side2 == IF kind = "singles" THEN m.player2
                 ELSE <<m.team2.receiver, m.team2.partner>>
        score1 == IF kind = "singles" THEN m.score.player1 ELSE m.score.team1
        score2 == IF kind = "singles" THEN m.score.player2 ELSE m.score.team2
    IN  IF m.type # kind THEN <<>>
        ELSE IF score1 > score2 /\ has /\ exp.expected_1 < Half
        THEN <<UpsetEntry(item.date, side1, side2, score1, score2, exp.expected_1)>>
        ELSE IF score2 > score1 /\ has /\ exp.expected_2 < Half
        THEN <<UpsetEntry(item.date, side2, side1, score2, score1, exp.expected_2)>>
        ELSE <<>>

\* singles_upsets / doubles_upsets before sorting, in log order
RECURSIVE UpsetList(_, _, _)
UpsetList(flat, expected_map, kind) ==
    IF flat = <<>> THEN <<>>
    ELSE UpsetOf(Head(flat), expected_map, kind)
         \o UpsetList(Tail(flat), expected_map, kind)

\* sort(key=upset_magnitude, reverse=True) keeps equal keys in list order
UpsetKey(u) == -u.upset_magnitude

\* the first n elements: list[:n]
Take(s, n) == SubSeq(s, 1, Min(n, Len(s)))

\* list.sort(key=lambda x: x['upset_magnitude'], reverse=True)
SortedUpsets(upsets) ==
    StableSort(upsets, [i \in 1..Len(upsets) |-> UpsetKey(upsets[i])])

get_biggest_upsets(d) ==
    LET expected_map == get_match_expected_map(d)
        flat == Flatten(d)
        singles_upsets == UpsetList(flat, expected_map, "singles")
        doubles_upsets == UpsetList(flat, expected_map, "doubles")
    IN  [singles |-> Take(SortedUpsets(singles_upsets), TopN),
         doubles |-> Take(SortedUpsets(doubles_upsets), TopN)]

(***************************************************************************)
(* Head to head: get_head_to_head_singles                                  *)
(***************************************************************************)
\* str order of the player names of the model
NameOrder == <<"A", "B", "C", "D">>
NameRank(n) == CHOOSE i \in 1..Len(NameOrder) : NameOrder[i] = n

\* a, b = sorted([p1, p2]); key = f"{a}>{b}"
PairKey(p1, p2) == IF NameRank(p2) < NameRank(p1) THEN <<p2, p1>> ELSE <<p1, p2>>

NewRecord == [p1 |-> "", p2 |-> "", matches |-> 0, wins_p1 |-> 0, wins_p2 |-> 0,
              win_rate_p1 |-> 0, win_rate_p2 |-> 0]

\* H2HStep without the tie check: a tied match is a win of the second player
H2HStepTieCounted(records, m) ==
    LET p1 == m.player1
        p2 == m.player2
        s1 == m.score.player1
        s2 == m.score.player2
        key == PairKey(p1, p2)
        a == key[1]
        b == key[2]
        rec == Get(records, key, NewRecord)
        counted == [rec EXCEPT !.p1 = a, !.p2 = b, !.matches = @ + 1]
        actual_winner == IF s1 > s2 THEN p1 ELSE p2
    IN  IF m.type # "singles" THEN records
        ELSE IF p1 = "" \/ p2 = "" THEN records
        ELSE IF actual_winner = a
        THEN Put(records, key, [counted EXCEPT !.wins_p1 = @ + 1])
        ELSE Put(records, key, [counted EXCEPT !.wins_p2 = @ + 1])

H2HStep(records, m) ==
    LET p1 == m.player1
        p2 == m.player2
        s1 == m.score.player1
        s2 == m.score.player2
        key == PairKey(p1, p2)
        a == key[1]
        b == key[2]
        rec == Get(records, key, NewRecord)
        counted == [rec EXCEPT !.p1 = a, !.p2 = b, !.matches = @ + 1]
        actual_winner == IF s1 > s2 THEN p1 ELSE p2
    IN  IF m.type # "singles" THEN records
        ELSE IF p1 = "" \/ p2 = "" THEN records
        ELSE IF s1 = s2 THEN Put(records, key, counted)
        ELSE IF actual_winner = a
        THEN Put(records, key, [counted EXCEPT !.wins_p1 = @ + 1])
        ELSE Put(records, key, [counted EXCEPT !.wins_p2 = @ + 1])

RECURSIVE H2HFold(_, _)
H2HFold(flat, n) ==
    IF n = 0 THEN EmptyDict ELSE H2HStep(H2HFold(flat, n - 1), flat[n].match)

\* round((wins / matches) * 100, 1) in tenths of a percent, ties to even
RatePct(wins, matches) ==
    LET num == wins * 1000
        q == num \div matches
        rem == num - q * matches
    IN  IF 2 * rem > matches THEN q + 1
        ELSE IF 2 * rem < matches THEN q
        ELSE IF q % 2 = 0 THEN q ELSE q + 1

get_head_to_head_singles(d) ==
    LET flat == Flatten(d)
        records == H2HFold(flat, Len(flat))
    IN  [k \in DOMAIN records |->
            IF records[k].matches > 0
            THEN [records[k] EXCEPT
                    !.win_rate_p1 = RatePct(records[k].wins_p1, records[k].matches),
                    !.win_rate_p2 = RatePct(records[k].wins_p2, records[k].matches)]
            ELSE records[k]]

(***************************************************************************)
(* Helpers of the aggregate statistics                                     *)
(***************************************************************************)
\* the scores of the two sides of a match record
Score1(m) == IF m.type = "singles" THEN m.score.player1 ELSE m.score.team1
Score2(m) == IF m.type = "singles" THEN m.score.player2 ELSE m.score.team2

\* sum(list)
RECURSIVE SeqSum(_)
SeqSum(s) == IF s = <<>> THEN 0 ELSE Head(s) + SeqSum(Tail(s))

\* num / den rounded to the nearest integer, ties to even (den > 0)
RoundRatio(num, den) ==
    LET q == num \div den
        rem == num - q * den
    IN  IF 2 * rem > den THEN q + 1
        ELSE IF 2 * rem < den THEN q
        ELSE IF q % 2 = 0 THEN q ELSE q + 1

\* what a division by zero leaves in place of a number
ZeroDivisionError == -1

\* round(num / den * 100, 1) in tenths of a percent; a / b raises on b = 0
Percentage(num, den) == IF den = 0 THEN ZeroDivisionError ELSE RoundRatio(num * 1000, den)

(***************************************************************************)
(* Player tallies and streaks: get_player_stats                            *)
(***************************************************************************)
\* players.json: the registered players, one who plays and one who does not
registered_players == {"A", "E"}

\* the entry a player starts from
NewPlayerStats ==
    [singles_played |-> 0, singles_won |-> 0, doubles_played |-> 0, doubles_won |-> 0,
     total_played |-> 0, total_won |-> 0, points_scored |-> 0, points_conceded |-> 0,
     avg_score_in_wins |-> 0, avg_score_in_losses |-> 0, win_streak |-> 0,
     current_streak |-> 0, best_streak |-> 0]

\* update_streak that counts on from any value: a win adds one, a loss takes
\* one away
update_streakNoReset(player_stats, won) ==
    IF won
    THEN LET current == player_stats.current_streak + 1
         IN  [player_stats EXCEPT !.current_streak = current,
                                  !.best_streak = Max(player_stats.best_streak, current)]
    ELSE [player_stats EXCEPT !.current_streak = player_stats.current_streak - 1]

update_streak(player_stats, won) ==
    IF won
    THEN LET current == Max(1, player_stats.current_streak + 1)
         IN  [player_stats EXCEPT !.current_streak = current,
                                  !.best_streak = Max(player_stats.best_streak, current)]
    ELSE [player_stats EXCEPT !.current_streak = Min(-1, player_stats.current_streak - 1)]

\* player_stats[p] on the defaultdict
StatsOf(stats, p) == Get(stats, p, NewPlayerStats)

\* <type>_played += 1 and total_played += 1 for the players in turn
RECURSIVE Played(_, _, _)
Played(stats, players, type) ==
    IF players = <<>> THEN stats
    ELSE LET p == Head(players)
             field == IF type = "singles" THEN "singles_played" ELSE "doubles_played"
         IN  Played(Put(stats, p, [StatsOf(stats, p) EXCEPT ![field] = @ + 1,
                                                           !.total_played = @ + 1]),
                    Tail(players), type)

\* points_scored += scored and points_conceded += conceded for the players
RECURSIVE Points(_, _, _, _)
Points(stats, players, scored, conceded) ==
    IF players = <<>> THEN stats
    ELSE LET p == Head(players)
         IN  Points(Put(stats, p, [StatsOf(stats, p) EXCEPT !.points_scored = @ + scored,
                                                           !.points_conceded = @ + conceded]),
                    Tail(players), scored, conceded)

\* <type>_won += 1, total_won += 1 and update_streak(.., True) for the players
RECURSIVE Won(_, _, _)
Won(stats, players, type) ==
    IF players = <<>> THEN stats
    ELSE LET p == Head(players)
             field == IF type = "singles" THEN "singles_won" ELSE "doubles_won"
             counted == [StatsOf(stats, p) EXCEPT ![field] = @ + 1, !.total_won = @ + 1]
         IN  Won(Put(stats, p, update_streak(counted, TRUE)), Tail(players), type)

\* update_streak(.., False) for the players
RECURSIVE Lost(_, _)
Lost(stats, players) ==
    IF players = <<>> THEN stats
    ELSE LET p == Head(players)
         IN  Lost(Put(stats, p, update_streak(StatsOf(stats, p), FALSE)), Tail(players))

\* the two sides of a match as lists of names, and whether all are given
Side1(m) == IF m.type = "singles" THEN <<m.player1>> ELSE <<m.team1.server, m.team1.partner>>
Side2(m) == IF m.type = "singles" THEN <<m.player2>> ELSE <<m.team2.receiver, m.team2.partner>>
AllGiven(m) == \A i \in 1..Len(Side1(m) \o Side2(m)) : (Side1(m) \o Side2(m))[i] # ""

\* PlayerStatsStep that adds the scores of every match, the placeholder
\* scores of a win/loss record too
PlayerStatsStepAnyPoints(stats, m) ==
    LET side1 == Side1(m)
        side2 == Side2(m)
        score1 == IF m.type = "singles" THEN m.score.player1 ELSE m.score.team1
        score2 == IF m.type = "singles" THEN m.score.player2 ELSE m.score.team2
        played == Played(stats, side1 \o side2, m.type)
        pointed == Points(Points(played, side1, score1, score2), side2, score2, score1)
    IN  IF ~AllGiven(m) THEN stats
        ELSE IF score1 > score2
        THEN Lost(Won(pointed, side1, m.type), side2)
        ELSE Lost(Won(pointed, side2, m.type), side1)

\* the body of the second pass for one match
PlayerStatsStep(stats, m) ==
    LET side1 == Side1(m)
        side2 == Side2(m)
        score1 == IF m.type = "singles" THEN m.score.player1 ELSE m.score.team1
        score2 == IF m.type = "singles" THEN m.score.player2 ELSE m.score.team2
        played == Played(stats, side1 \o side2, m.type)
        pointed == IF m.result_type = "score"
                   THEN Points(Points(played, side1, score1, score2), side2, score2, score1)
                   ELSE played
    IN  IF ~AllGiven(m) THEN stats
        ELSE IF score1 > score2
        THEN Lost(Won(pointed, side1, m.type), side2)
        ELSE Lost(Won(pointed, side2, m.type), side1)

\* the percentage without the guard on played
WinPercentageUnguarded(won, played) == Percentage(won, played)

\* round((won / played) * 100, 1) if played > 0 else 0, in tenths of a percent
WinPercentage(won, played) == IF played > 0 THEN Percentage(won, played) ELSE 0

\* the derived values of one entry
Derived(stats) ==
    [singles_played |-> stats.singles_played, singles_won |-> stats.singles_won,
     doubles_played |-> stats.doubles_played, doubles_won |-> stats.doubles_won,
     total_played |-> stats.total_played, total_won |-> stats.total_won,
     points_scored |-> stats.points_scored, points_conceded |-> stats.points_conceded,
     avg_score_in_wins |-> stats.avg_score_in_wins,
     avg_score_in_losses |-> stats.avg_score_in_losses,
     win_streak |-> stats.win_streak,
     current_streak |-> stats.current_streak,
     best_streak |-> Max(stats.best_streak, stats.current_streak),
     win_percentage |-> WinPercentage(stats.total_won, stats.total_played),
     singles_win_percentage |-> WinPercentage(stats.singles_won, stats.singles_played),
     doubles_win_percentage |-> WinPercentage(stats.doubles_won, stats.doubles_played)]

\* the names the first pass collects, with the registered players and
\* without the empty name
CollectedPlayers(flat) ==
    (UNION {{(Side1(flat[i].match) \o Side2(flat[i].match))[j] :
                j \in 1..Len(Side1(flat[i].match) \o Side2(flat[i].match))} :
            i \in 1..Len(flat)}
        \cup registered_players) \ {""}

\* the entries before the first match and after each match of the log, in
\* the order of the log
RECURSIVE PlayerStatsTrace(_, _)
PlayerStatsTrace(flat, n) ==
    IF n = 0 THEN <<[p \in CollectedPlayers(flat) |-> NewPlayerStats]>>
    ELSE LET trace == PlayerStatsTrace(flat, n - 1)
         IN  Append(trace, PlayerStatsStep(trace[n], flat[n].match))

get_player_stats(d) ==
    LET flat == Flatten(d)
        player_stats == PlayerStatsTrace(flat, Len(flat))[Len(flat) + 1]
    IN  [p \in DOMAIN player_stats |-> Derived(player_stats[p])]

(***************************************************************************)
(* Match list with rating changes: get_match_history                       *)
(*                                                                         *)
(* The state of the fold holds the current_elos dict and the list of the   *)
(* matches handed out so far.                                              *)
(***************************************************************************)
\* all_matches.sort(key=lambda x: x['date'])
HistoryChron(d) ==
    LET all_matches == Flatten(d)
    IN  StableSort(all_matches, [i \in 1..Len(all_matches) |-> LexKey(all_matches[i])])

HistoryInit == [current_elos |-> EmptyDict, matches |-> <<>>]

HistorySingles(st, date, m) ==
    LET player1 == m.player1
        player2 == m.player2
        score1 == m.score.player1
        score2 == m.score.player2
        elo1_before == Get(st.current_elos, player1, DefaultRating)
        elo2_before == Get(st.current_elos, player2, DefaultRating)
        e1 == QShare(elo1_before, elo2_before)
        e2 == QShare(elo2_before, elo1_before)
        s1 == IF score1 > score2 THEN 1 ELSE 0
        s2 == 1 - s1
        k3 == KFactor3(score1, score2)
        elo1_after == elo1_before + HybridDelta(k3, s1, e1)
        elo2_after == elo2_before + HybridDelta(k3, s2, e2)
    IN  IF player1 = "" \/ player2 = "" THEN st
        ELSE [current_elos |-> Put(Put(st.current_elos, player1, elo1_after),
                                   player2, elo2_after),
              matches |-> Append(st.matches,
                  [id |-> m.id, date |-> date, type |-> "Singles",
                   side1 |-> <<player1>>, side2 |-> <<player2>>,
                   score1 |-> score1, score2 |-> score2,
                   winner |-> IF score1 > score2 THEN 1 ELSE 2,
                   expected_win_1 |-> RoundPct(e1),
                   elo_change1 |-> Round1(elo1_after - elo1_before),
                   elo_change2 |-> Round1(elo2_after - elo2_before),
                   elo_changes |-> EmptyDict])]

HistoryDoubles(st, date, m) ==
    LET t1s == m.team1.server
        t1p == m.team1.partner
        t2r == m.team2.receiver
        t2p == m.team2.partner
        score1 == m.score.team1
        score2 == m.score.team2
        elo_t1s == Get(st.current_elos, t1s, DefaultRating)
        elo_t1p == Get(st.current_elos, t1p, DefaultRating)
        elo_t2r == Get(st.current_elos, t2r, DefaultRating)
        elo_t2p == Get(st.current_elos, t2p, DefaultRating)
        team1_elo == (elo_t1s + elo_t1p) \div 2
        team2_elo == (elo_t2r + elo_t2p) \div 2
        e1 == QShare(team1_elo, team2_elo)
        e2 == QShare(team2_elo, team1_elo)
        s1 == IF score1 > score2 THEN 1 ELSE 0
        s2 == 1 - s1
        k3 == KFactor3(score1, score2)
        team1_delta == HybridHalfDelta(k3, s1, e1)
        team2_delta == HybridHalfDelta(k3, s2, e2)
    IN  IF t1s = "" \/ t1p = "" \/ t2r = "" \/ t2p = "" THEN st
        ELSE [current_elos |->
                  Put(Put(Put(Put(st.current_elos, t1s, elo_t1s + team1_delta),
                              t1p, elo_t1p + team1_delta),
                          t2r, elo_t2r + team2_delta),
                      t2p, elo_t2p + team2_delta),
              matches |-> Append(st.matches,
                  [id |-> m.id, date |-> date, type |-> "Doubles",
                   side1 |-> <<t1s, t1p>>, side2 |-> <<t2r, t2p>>,
                   score1 |-> score1, score2 |-> score2,
                   winner |-> IF score1 > score2 THEN 1 ELSE 2,
                   expected_win_1 |-> RoundPct(e1),
                   elo_change1 |-> 0,
                   elo_change2 |-> 0,
                   elo_changes |->
                       Put(Put(Put(Put(EmptyDict, t1s, Round1(team1_delta)),
                                   t1p, Round1(team1_delta)),
                               t2r, Round1(team2_delta)),
                           t2p, Round1(team2_delta))])]

HistoryStep(st, item) ==
    IF item.match.type = "singles" THEN HistorySingles(st, item.date, item.match)
    ELSE IF item.match.type = "doubles" THEN HistoryDoubles(st, item.date, item.match)
    ELSE st

\* the state after each match, the last state first in the list
RECURSIVE HistoryTrace(_, _)
HistoryTrace(chron, n) ==
    IF n = 0 THEN <<HistoryInit>>
    ELSE LET trace == HistoryTrace(chron, n - 1)
         IN  <<HistoryStep(trace[1], chron[n])>> \o trace

\* list(reversed(matches))
Reversed(s) == [i \in 1..Len(s) |-> s[Len(s) + 1 - i]]

get_match_history(d) ==
    LET chron == HistoryChron(d)
    IN  Reversed(HistoryTrace(chron, Len(chron))[1].matches)

(***************************************************************************)
(* Match analytics: get_match_analytics                                    *)
(***************************************************************************)
\* the list without the repetitions, in the order of the first occurrences:
\* the keys of a Counter or dict filled from the list
RECURSIVE FirstSeen(_)
FirstSeen(s) ==
    IF s = <<>> THEN <<>>
    ELSE LET rest == FirstSeen(SubSeq(s, 1, Len(s) - 1))
             last == s[Len(s)]
         IN  IF \E i \in 1..Len(rest) : rest[i] = last THEN rest ELSE Append(rest, last)

\* Counter(s)[x]
CountOf(s, x) == Cardinality({i \in 1..Len(s) : s[i] = x})

\* Counter(s).most_common(n)
MostCommon(s, n) ==
    LET keys == FirstSeen(s)
        sorted == StableSort(keys, [i \in 1..Len(keys) |-> 0 - CountOf(s, keys[i])])
    IN  Take([i \in 1..Len(sorted) |-> [item |-> sorted[i], count |-> CountOf(s, sorted[i])]], n)

\* abs(score1 - score2)
ScoreDifference(m) ==
    IF Score1(m) > Score2(m) THEN Score1(m) - Score2(m) ELSE Score2(m) - Score1(m)

\* the matchup of a match whose names are all given: the sorted pair of
\* players, or the two sorted teams
Matchup(m) ==
    IF m.type = "singles"
    THEN [type |-> "singles", names |-> PairKey(m.player1, m.player2)]
    ELSE [type |-> "doubles",
          names |-> PairKey(m.team1.server, m.team1.partner)
                    \o PairKey(m.team2.receiver, m.team2.partner)]

\* strftime("%A") of the dates of the calendar
DayNames == <<"Monday", "Tuesday", "Wednesday">>

get_match_analytics(d) ==
    LET flat == Flatten(d)
        matches == [i \in 1..Len(flat) |-> flat[i].match]
        total_singles == Cardinality({i \in 1..Len(matches) : matches[i].type = "singles"})
        total_doubles == Cardinality({i \in 1..Len(matches) : matches[i].type = "doubles"})
        counted == SelectSeq(matches, LAMBDA m :
                       Score1(m) # 0 /\ Score2(m) # 0 /\ m.result_type = "score")
        score_differences == [i \in 1..Len(counted) |-> ScoreDifference(counted[i])]
        named == SelectSeq(matches, AllGiven)
        matchups == [i \in 1..Len(named) |-> Matchup(named[i])]
        dates == SelectSeq([i \in 1..Len(d) |-> d[i].date],
                           LAMBDA date : date # "" /\ strptime(date) # 0)
        day_names == [i \in 1..Len(dates) |-> DayNames[strptime(dates[i])]]
    IN  [total_matches |-> total_singles + total_doubles,
         singles_matches |-> total_singles,
         doubles_matches |-> total_doubles,
         avg_score_difference |->
             IF score_differences # <<>>
             THEN RoundRatio(SeqSum(score_differences) * 10, Len(score_differences))
             ELSE 0,
         common_matchups |-> MostCommon(matchups, 5),
         day_frequency |->
             [name \in {day_names[i] : i \in 1..Len(day_names)} |-> CountOf(day_names, name)]]

(***************************************************************************)
(* Partnerships: get_team_dynamics                                         *)
(***************************************************************************)
\* played, and on a real score the points, of one team
TeamPlayed(partnerships, team, m, scored, conceded) ==
    LET stats == Get(partnerships, team,
                     [played |-> 0, won |-> 0, points_scored |-> 0,
                      points_conceded |-> 0, score_matches |-> 0])
    IN  Put(partnerships, team,
            IF m.result_type = "score"
            THEN [stats EXCEPT !.played = @ + 1,
                               !.points_scored = @ + scored,
                               !.points_conceded = @ + conceded,
                               !.score_matches = @ + 1]
            ELSE [stats EXCEPT !.played = @ + 1])

TeamStep(partnerships, m) ==
    IF m.type # "doubles" \/ ~AllGiven(m) THEN partnerships
    ELSE LET team1 == PairKey(m.team1.server, m.team1.partner)
             team2 == PairKey(m.team2.receiver, m.team2.partner)
             score1 == m.score.team1
             score2 == m.score.team2
             both == TeamPlayed(TeamPlayed(partnerships, team1, m, score1, score2),
                                team2, m, score2, score1)
             winner == IF score1 > score2 THEN team1 ELSE team2
         IN  Put(both, winner, [both[winner] EXCEPT !.won = @ + 1])

\* the partnerships before the first match and after each match of the log
RECURSIVE TeamTrace(_, _)
TeamTrace(flat, n) ==
    IF n = 0 THEN <<EmptyDict>>
    ELSE LET trace == TeamTrace(flat, n - 1)
         IN  Append(trace, TeamStep(trace[n], flat[n].match))

\* win_rate in tenths of a percent, point_diff_per_game in hundredths
get_team_dynamics(d) ==
    LET flat == Flatten(d)
        partnerships == TeamTrace(flat, Len(flat))[Len(flat) + 1]
    IN  [team \in DOMAIN partnerships |->
            LET stats == partnerships[team]
                point_diff == stats.points_scored - stats.points_conceded
            IN  [played |-> stats.played, won |-> stats.won,
                 points_scored |-> stats.points_scored,
                 points_conceded |-> stats.points_conceded,
                 score_matches |-> stats.score_matches,
                 win_rate |-> IF stats.played > 0
                              THEN Percentage(stats.won, stats.played) ELSE 0,
                 point_diff |-> point_diff,
                 point_diff_per_game |->
                     IF stats.score_matches > 0
                     THEN RoundRatio(point_diff * 100, stats.score_matches) ELSE 0]]

(***************************************************************************)
(* Score patterns: get_score_patterns                                      *)
(***************************************************************************)
\* twice statistics.median(s) of a list that is not empty
Median2(s) ==
    LET sorted == StableSort(s, s)
        n == Len(s)
    IN  IF n % 2 = 1 THEN 2 * sorted[(n + 1) \div 2]
        ELSE sorted[n \div 2] + sorted[n \div 2 + 1]

\* avg_points_per_player in tenths, median_score_difference in halves; only
\* singles matches with a real score are looked at
get_score_patterns(d) ==
    LET flat == SelectSeq(Flatten(d), LAMBDA x :
                    x.match.result_type = "score" /\ x.match.type = "singles")
        all_scores == [i \in 1..(2 * Len(flat)) |->
                          IF i % 2 = 1 THEN flat[(i + 1) \div 2].match.score.player1
                          ELSE flat[i \div 2].match.score.player2]
        infos == [i \in 1..Len(flat) |->
                     [date |-> flat[i].date, type |-> "singles",
                      player1 |-> flat[i].match.player1,
                      player2 |-> flat[i].match.player2,
                      score |-> <<flat[i].match.score.player1, flat[i].match.score.player2>>,
                      difference |-> ScoreDifference(flat[i].match)]]
        score_differences == [i \in 1..Len(infos) |-> infos[i].difference]
        close == SelectSeq(infos, LAMBDA x : x.difference <= 2)
        decisive == SelectSeq(infos, LAMBDA x : x.difference >= 10)
    IN  [avg_points_per_player |->
             IF all_scores # <<>>
             THEN RoundRatio(SeqSum(all_scores) * 10, Len(all_scores)) ELSE 0,
         median_score_difference |->
             IF score_differences # <<>> THEN Median2(score_differences) ELSE 0,
         closest_matches |->
             Take(StableSort(close, [i \in 1..Len(close) |-> close[i].difference]), 5),
         decisive_victories |->
             Take(StableSort(decisive,
                             [i \in 1..Len(decisive) |-> 0 - decisive[i].difference]), 5),
         score_distribution |->
             [score \in {all_scores[i] : i \in 1..Len(all_scores)} |->
                 CountOf(all_scores, score)]]

(***************************************************************************)
(* Activity by date: get_temporal_analysis                                 *)
(***************************************************************************)
\* the value max() finds nothing to return
None == "None"

\* the entries with a date overwrite each other: a date keeps the counts of
\* its last entry; the points of a day are those of all its matches,
\* placeholders included
get_temporal_analysis(d) ==
    LET dated == SelectSeq(d, LAMBDA day : day.date # "")
        keys == FirstSeen([i \in 1..Len(dated) |-> dated[i].date])
        last(date) == dated[CHOOSE i \in 1..Len(dated) :
                               /\ dated[i].date = date
                               /\ \A j \in (i + 1)..Len(dated) : dated[j].date # date]
        matches_by_date == [date \in {keys[i] : i \in 1..Len(keys)} |->
                               Len(last(date).matches)]
        points_by_date == [date \in {keys[i] : i \in 1..Len(keys)} |->
                              SeqSum([i \in 1..Len(last(date).matches) |->
                                         Score1(last(date).matches[i])
                                         + Score2(last(date).matches[i])])]
        date_keys == StableSort(keys, [i \in 1..Len(keys) |->
                                             LexKey([date |-> keys[i]])])
    IN  [time_series |->
             [dates |-> date_keys,
              match_counts |-> [i \in 1..Len(date_keys) |-> matches_by_date[date_keys[i]]],
              point_counts |-> [i \in 1..Len(date_keys) |-> points_by_date[date_keys[i]]]],
         most_active_date |->
             IF keys = <<>> THEN None
             ELSE keys[CHOOSE i \in 1..Len(keys) :
                          /\ \A j \in 1..Len(keys) :
                                matches_by_date[keys[j]] <= matches_by_date[keys[i]]
                          /\ \A j \in 1..(i - 1) :
                                matches_by_date[keys[j]] < matches_by_date[keys[i]]],
         matches_by_date |-> matches_by_date]

(***************************************************************************)
(* Serving rotations: get_doubles_serving_stats                            *)
(***************************************************************************)
NewServing == [matches |-> 0, wins |-> 0, win_rate |-> 0]

\* one more match, and one more win when won, in a counter
Served(stats, won) ==
    [stats EXCEPT !.matches = @ + 1, !.wins = @ + (IF won THEN 1 ELSE 0)]

\* player_pairs[server][receiver] after one service relation of a match
PairServed(player_pairs, server, receiver, won) ==
    LET receivers == Get(player_pairs, server, EmptyDict)
    IN  Put(player_pairs, server,
            Put(receivers, receiver, Served(Get(receivers, receiver, NewServing), won)))

\* t1_pair <= t2_pair on tuples of two names
PairLE(p, q) ==
    \/ NameRank(p[1]) < NameRank(q[1])
    \/ p[1] = q[1] /\ NameRank(p[2]) <= NameRank(q[2])

\* the state holds player_pairs and match_groups; a group is keyed by the
\* sorted names, a configuration by the two sorted pairs, smaller pair first
ServingStep(st, m) ==
    IF m.type # "doubles" \/ ~AllGiven(m) \/ m.result_type # "score" THEN st
    ELSE LET team1_won == m.score.team1 > m.score.team2
             names == <<m.team1.server, m.team1.partner, m.team2.receiver, m.team2.partner>>
             match_group_key == StableSort(names, [i \in 1..4 |-> NameRank(names[i])])
             t1_pair == PairKey(m.team1.server, m.team1.partner)
             t2_pair == PairKey(m.team2.receiver, m.team2.partner)
             config_key == IF PairLE(t1_pair, t2_pair) THEN t1_pair \o t2_pair
                           ELSE t2_pair \o t1_pair
             left_won == IF PairLE(t1_pair, t2_pair) THEN team1_won ELSE ~team1_won
             group == Get(st.match_groups, match_group_key,
                          [matches |-> 0, configurations |-> EmptyDict])
             config == Get(group.configurations, config_key, NewServing)
             pairs1 == PairServed(st.player_pairs, m.team1.server, m.team2.receiver, team1_won)
             pairs2 == PairServed(pairs1, m.team2.receiver, m.team1.partner, ~team1_won)
             pairs3 == PairServed(pairs2, m.team1.partner, m.team2.partner, team1_won)
             pairs4 == PairServed(pairs3, m.team2.partner, m.team1.server, ~team1_won)
         IN  [player_pairs |-> pairs4,
              match_groups |->
                  Put(st.match_groups, match_group_key,
                      [matches |-> group.matches + 1,
                       configurations |->
                           Put(group.configurations, config_key, Served(config, left_won))])]

\* the counters before the first match and after each match of the log
RECURSIVE ServingTrace(_, _)
ServingTrace(flat, n) ==
    IF n = 0 THEN <<[player_pairs |-> EmptyDict, match_groups |-> EmptyDict]>>
    ELSE LET trace == ServingTrace(flat, n - 1)
         IN  Append(trace, ServingStep(trace[n], flat[n].match))

\* win_rate of a counter, in tenths of a percent
ServingRate(stats) ==
    IF stats.matches > 0
    THEN [stats EXCEPT !.win_rate = Percentage(stats.wins, stats.matches)]
    ELSE stats

get_doubles_serving_stats(d) ==
    LET flat == Flatten(d)
        st == ServingTrace(flat, Len(flat))[Len(flat) + 1]
    IN  [player_pairs |->
             [server \in DOMAIN st.player_pairs |->
                 [receiver \in DOMAIN st.player_pairs[server] |->
                     ServingRate(st.player_pairs[server][receiver])]],
         match_groups |->
             [key \in DOMAIN st.match_groups |->
                 [matches |-> st.match_groups[key].matches,
                  configurations |->
                      [config \in DOMAIN st.match_groups[key].configurations |->
                          ServingRate(st.match_groups[key].configurations[config])]]]]

(***************************************************************************)
(* Points: get_total_points_stat                                           *)
(***************************************************************************)
get_total_points_stat(d) ==
    LET flat == SelectSeq(Flatten(d), LAMBDA x : x.match.result_type = "score")
    IN  SeqSum([i \in 1..Len(flat) |-> Score1(flat[i].match) + Score2(flat[i].match)])

(***************************************************************************)
(* Facade: get_all_statistics                                              *)
(***************************************************************************)
elo_window == 50

\* current_ratings of one mode after the hybrid values are written over it
SpliceCurrent(current, hybrid_ratings, mode) ==
    [player \in DOMAIN current |->
        IF player \in DOMAIN hybrid_ratings[mode]
        THEN hybrid_ratings[mode][player]
        ELSE Get(hybrid_ratings.overall, player, DefaultRating)]

get_all_statistics(d) ==
    LET hybrid_ratings == get_hybrid_elo_ratings(d, elo_window)
        elo_history == get_elo_ratings_and_history(d)
    IN  IF elo_history.error # ""
        THEN [error |-> elo_history.error,
              player_stats |-> EmptyDict,
              match_history |-> <<>>,
              match_analytics |-> EmptyDict,
              team_dynamics |-> EmptyDict,
              score_patterns |-> EmptyDict,
              temporal_analysis |-> EmptyDict,
              doubles_serving |-> EmptyDict,
              total_points |-> 0,
              elo_ratings |-> elo_history.result,
              head_to_head_singles |-> EmptyDict,
              biggest_upsets |-> [singles |-> <<>>, doubles |-> <<>>]]
        ELSE [error |-> "",
              player_stats |-> get_player_stats(d),
              match_history |-> get_match_history(d),
              match_analytics |-> get_match_analytics(d),
              team_dynamics |-> get_team_dynamics(d),
              score_patterns |-> get_score_patterns(d),
              temporal_analysis |-> get_temporal_analysis(d),
              doubles_serving |-> get_doubles_serving_stats(d),
              total_points |-> get_total_points_stat(d),
              elo_ratings |->
                [mode \in Modes |->
                    [current_ratings |->
                        SpliceCurrent(elo_history.result[mode].current_ratings,
                                      hybrid_ratings, mode),
                     history |-> elo_history.result[mode].history]],
              head_to_head_singles |-> get_head_to_head_singles(d),
              biggest_upsets |-> get_biggest_upsets(d)]

(***************************************************************************)
(* The state machine                                                       *)
(*                                                                         *)
(* data is the match log (ping_pong_matches.json), response the last       *)
(* statistics report handed out since the log changed.                     *)
(***************************************************************************)
NoResponse == [fn |-> "", value |-> <<>>]

Init ==
    /\ data = <<>>
    /\ response = NoResponse

\* convert_json_to_match_text: the lines the form shows for a day entry
TextOfMatch(m) ==
    LET result_value ==
            IF m.type = "singles"
            THEN (IF m.result_value = "W" THEN "P1"
                  ELSE IF m.result_value = "L" THEN "P2" ELSE m.result_value)
            ELSE (IF m.result_value = "W" THEN "T1"
                  ELSE IF m.result_value = "L" THEN "T2" ELSE m.result_value)
        names == IF m.type = "singles" THEN <<m.player1, m.player2>>
                 ELSE <<m.team1.server, m.team1.partner, m.team2.receiver, m.team2.partner>>
        score1 == IF m.type = "singles" THEN m.score.player1 ELSE m.score.team1
        score2 == IF m.type = "singles" THEN m.score.player2 ELSE m.score.team2
    IN  IF m.result_type = "score" THEN Line(names, ScoreTok(score1, score2))
        ELSE Line(names, WordTok(result_value))

convert_json_to_match_text(date_data) ==
    [i \in 1..Len(date_data.matches) |-> TextOfMatch(date_data.matches[i])]

\* load_from_file: the text of the entry of the date, empty when there is none
LoadedText(date) ==
    LET found == {i \in 1..Len(data) : data[i].date = date}
    IN  IF found = {} THEN <<>>
        ELSE convert_json_to_match_text(data[CHOOSE j \in found : \A k \in found : j <= k])

\* the /parse route: the matches of the date are replaced by those of the
\* submitted text, a date that has no entry yet is appended to the log
parse(date, text) ==
    LET result == parse_ping_pong_matches(date, text)
        found == {i \in 1..Len(data) : data[i].date = date}
    IN  /\ date # ""
        /\ text # <<>>
        /\ strptime(date) # 0
        /\ result.matches # <<>>
        /\ IF found # {}
           THEN LET i == CHOOSE j \in found : \A k \in found : j <= k
                IN  data' = [data EXCEPT ![i].matches = result.matches]
           ELSE data' = Append(data, result)
        /\ response' = NoResponse

\* the /statistics route
statistics ==
    /\ response' = [fn |-> "get_all_statistics", value |-> get_all_statistics(data)]
    /\ UNCHANGED data

\* the form is loaded for a date, one line is added under the matches shown
\* and the text is submitted
SubmitLine(dates, lines, max_matches) ==
    \E date \in dates, line \in lines :
        /\ Len(Flatten(data)) < max_matches
        /\ parse(date, Append(LoadedText(date), line))

\* the dates picked in the form
FormDates == {"2025-09-01", "2025-09-02"}

\* singles lines: a score either way, a win/loss word, a tie, two other
\* players, one player against himself
SinglesLines ==
    {Line(<<"A", "B">>, ScoreTok(21, 15)),
     Line(<<"B", "A">>, ScoreTok(21, 15)),
     Line(<<"A", "B">>, WordTok("p2")),
     Line(<<"A", "B">>, ScoreTok(11, 11)),
     Line(<<"C", "D">>, ScoreTok(15, 21)),
     Line(<<"A", "A">>, ScoreTok(21, 15))}

\* doubles lines: a score with the sides either way, a win/loss word, a
\* player named twice in a team; and singles lines between doubles players
MixedLines ==
    {Line(<<"A", "B", "C", "D">>, ScoreTok(21, 15)),
     Line(<<"C", "D", "A", "B">>, ScoreTok(21, 15)),
     Line(<<"A", "B", "C", "D">>, WordTok("t2")),
     Line(<<"A", "A", "C", "D">>, ScoreTok(21, 15)),
     Line(<<"A", "C">>, ScoreTok(21, 15)),
     Line(<<"C", "A">>, WordTok("W"))}

\* one long day between the same two sides: blocks of lines in which each
\* side wins in turn, or one side twice
LongDates == {"2025-09-01"}
LongBlocks ==
    {<<Line(<<"A", "B">>, ScoreTok(21, 15)), Line(<<"B", "A">>, ScoreTok(21, 15))>>,
     <<Line(<<"B", "A">>, ScoreTok(21, 15)), Line(<<"A", "B">>, ScoreTok(21, 15))>>,
     <<Line(<<"A", "B">>, ScoreTok(21, 15)), Line(<<"A", "B">>, ScoreTok(21, 15)),
       Line(<<"B", "A">>, ScoreTok(21, 15))>>,
     <<Line(<<"A", "B", "C", "D">>, ScoreTok(21, 15)),
       Line(<<"C", "D", "A", "B">>, ScoreTok(21, 15))>>,
     <<Line(<<"C", "D", "A", "B">>, ScoreTok(21, 15)),
       Line(<<"A", "B", "C", "D">>, ScoreTok(21, 15))>>,
     <<Line(<<"A", "B", "C", "D">>, ScoreTok(21, 15)),
       Line(<<"A", "B", "C", "D">>, ScoreTok(21, 15)),
       Line(<<"C", "D", "A", "B">>, ScoreTok(21, 15))>>}

SubmitSingles == SubmitLine(FormDates, SinglesLines, MaxMatches)

SubmitMixed == SubmitLine(FormDates, MixedLines, MaxMatches)

\* the form is loaded for the date, a block of lines is added under the
\* matches shown and the text is submitted; a day of singles or a day of
\* doubles
SubmitLong ==
    \E date \in LongDates, block \in LongBlocks :
        /\ Len(Flatten(data)) + Len(block) <= MaxLong
        /\ \A i \in 1..Len(LoadedText(date)) :
               Len(LoadedText(date)[i].names) = Len(block[1].names)
        /\ parse(date, LoadedText(date) \o block)

Next == SubmitSingles \/ statistics

Spec == Init /\ [][Next]_vars

NextMixed == SubmitMixed \/ statistics

SpecMixed == Init /\ [][NextMixed]_vars

NextLong == SubmitLong \/ statistics

SpecLong == Init /\ [][NextLong]_vars

\* singles lines that end in a word: the indicators of the form, a word that
\* is no indicator but starts like one, and a word that does not
WordLines ==
    {Line(<<"A", "B">>, WordTok("P1")),
     Line(<<"B", "A">>, WordTok("w")),
     Line(<<"A", "B">>, WordTok("win")),
     Line(<<"A", "B">>, WordTok("P3")),
     Line(<<"A", "B">>, WordTok("T")),
     Line(<<"A", "B">>, WordTok("x"))}

SubmitWords == SubmitLine(FormDates, WordLines, MaxMatches)

NextWords == SubmitWords \/ statistics

SpecWords == Init /\ [][NextWords]_vars

\* the log file as load_match_data finds it: day entries that were not
\* written through the form, under a date of the calendar or under a text
\* that is no date, with match ids or from before add_match_ids.py
MaxDays == 2
FileDates == {"2025-09-01", "2025-09-02", "2025-13-40"}
FileTexts ==
    {<<Line(<<"A", "B">>, ScoreTok(21, 15))>>,
     <<Line(<<"B", "A">>, ScoreTok(21, 15))>>,
     <<Line(<<"A", "B">>, ScoreTok(21, 15)), Line(<<"B", "A">>, WordTok("P1"))>>}
\* the matches as a version of the program without match ids wrote them
WithoutIds(matches) == [i \in 1..Len(matches) |-> [matches[i] EXCEPT !.id = NoId]]
FileDays ==
    {[date |-> date, matches |-> ParseLines(date, text, 1)] :
        date \in FileDates, text \in FileTexts}
    \cup {[date |-> date, matches |-> WithoutIds(ParseLines(date, text, 1))] :
        date \in FileDates, text \in FileTexts}
FileLogs ==
    {log \in UNION {[1..n -> FileDays] : n \in 0..MaxDays} :
        \A i, j \in 1..Len(log) : log[i].date = log[j].date => i = j}

InitFile ==
    /\ data \in FileLogs
    /\ response = NoResponse

SpecFile == InitFile /\ [][Next]_vars

\* the log over several days, written through the form and by the command
\* line of parse_ping_pong_matches.py: a day's lines at once, of one match,
\* of three between the same players, of two other players, with a player
\* against himself, or of doubles
MaxLog == 4
DayBlocks ==
    {<<Line(<<"A", "B">>, ScoreTok(21, 15))>>,
     <<Line(<<"A", "B">>, ScoreTok(21, 15)), Line(<<"B", "A">>, ScoreTok(21, 15)),
       Line(<<"A", "B">>, WordTok("p2"))>>,
     <<Line(<<"C", "D">>, ScoreTok(15, 21))>>,
     <<Line(<<"A", "A">>, ScoreTok(21, 15)), Line(<<"A", "B">>, ScoreTok(21, 15))>>,
     <<Line(<<"A", "B", "C", "D">>, ScoreTok(21, 15))>>}

\* the form is loaded for the date, a block of lines is added under the
\* matches shown and the text is submitted
SubmitDay ==
    \E date \in FormDates, block \in DayBlocks :
        /\ Len(Flatten(data)) + Len(block) <= MaxLog
        /\ parse(date, LoadedText(date) \o block)

\* main of parse_ping_pong_matches.py: the parsed text of a day is appended
\* to the log as an entry of its own, whether the log has the date or not
main ==
    \E date \in FormDates, block \in DayBlocks :
        /\ Len(Flatten(data)) + Len(block) <= MaxLog
        /\ data' = Append(data, parse_ping_pong_matches(date, block))
        /\ response' = NoResponse

NextDays == SubmitDay \/ main \/ statistics

SpecDays == Init /\ [][NextDays]_vars

\* the /update_match route: the fields of the request are written over those
\* of the first match of the log with the id, the other fields are left as
\* they are; score is the pair of the new score or the empty list, and
\* result_type and result_value are "" when the request does not have them
update_match(id, score, result_type, result_value) ==
    /\ id # NoId
    /\ \E i \in 1..Len(data) : \E j \in 1..Len(data[i].matches) :
          /\ data[i].matches[j].id = id
          /\ \A k \in 1..Len(data) : \A l \in 1..Len(data[k].matches) :
                data[k].matches[l].id = id => k > i \/ (k = i /\ l >= j)
          /\ LET match == data[i].matches[j]
                 scored == IF score = <<>> THEN match.score
                           ELSE IF match.type = "singles"
                           THEN [match.score EXCEPT !.player1 = score[1], !.player2 = score[2]]
                           ELSE [match.score EXCEPT !.team1 = score[1], !.team2 = score[2]]
             IN  data' = [data EXCEPT ![i].matches[j] =
                            [match EXCEPT
                                !.score = scored,
                                !.result_type = IF result_type = "" THEN @ ELSE result_type,
                                !.result_value = IF result_value = "" THEN @ ELSE result_value]]
    /\ response' = NoResponse

\* lines of one day with scores of several margins, a win/loss word, and
\* doubles: a score, a tied score and a win/loss word
EditLines ==
    {Line(<<"A", "B">>, ScoreTok(21, 19)),
     Line(<<"A", "B">>, ScoreTok(21, 18)),
     Line(<<"B", "A">>, ScoreTok(21, 15)),
     Line(<<"A", "B">>, WordTok("P1")),
     Line(<<"A", "B", "C", "D">>, ScoreTok(21, 17)),
     Line(<<"C", "D", "A", "B">>, ScoreTok(11, 11)),
     Line(<<"A", "B", "C", "D">>, WordTok("T1"))}

\* the requests sent to /update_match: the score of a match is corrected, or
\* a match is marked as won by side 2 without a score being sent
Updates ==
    {[score |-> <<21, 15>>, result_type |-> "", result_value |-> ""],
     [score |-> <<>>, result_type |-> "winloss", result_value |-> "L"]}

NextEdit ==
    \/ SubmitLine(LongDates, EditLines, MaxMatches)
    \/ \E i \in 1..MaxMatches, u \in Updates :
          update_match(<<"2025-09-01", i>>, u.score, u.result_type, u.result_value)
    \/ statistics

SpecEdit == Init /\ [][NextEdit]_vars

TypeOK == response.fn \in {"", "get_all_statistics"}

(***************************************************************************)
(* Properties of the baseline fold                                         *)
(*                                                                         *)
(* chron is the list of matches in the order the baseline engine folds     *)
(* them, tr the states of the fold: tr[n] before and tr[n + 1] after the   *)
(* n-th match.                                                             *)
(***************************************************************************)
Chron == BaselineChron(data)

FoldTrace(chron) ==
    SubSeq([i \in 1..(Len(chron) + 1) |-> EloFold(chron, i - 1)], 1, Len(chron) + 1)

\* the n-th match was folded: it was not skipped by a `continue`
Folded(tr, n) == tr[n + 1].matches_played # tr[n].matches_played

\* the change of a player's rating in a mode by the n-th match
Delta(tr, mode, n, p) == get_r(tr[n + 1].ratings[mode], p) - get_r(tr[n].ratings[mode], p)

SinglesModes == {"overall", "singles"}
DoublesModes == {"overall", "doubles"}

IsSingles(m) == m.type = "singles"
IsDoubles(m) == m.type = "doubles"

\* the sum of the ratings of a mode is 1500 for each rated player
SumIsPar(st, mode) ==
    SumOver(st.ratings[mode], DOMAIN st.ratings[mode])
        = DefaultRating * Cardinality(DOMAIN st.ratings[mode])

\* the two players of a singles match move by opposite deltas
Opposite(chron, tr, n) ==
    \A mode \in SinglesModes :
        Delta(tr, mode, n, chron[n].match.player1)
            = -Delta(tr, mode, n, chron[n].match.player2)

\* C1 as stated: every folded singles match moves its two players by
\* opposite deltas in the overall and in the singles mode, and a log of
\* singles matches only keeps the sum of each mode at 1500 per rated player
C1_ZeroSumAnySingles ==
    LET chron == Chron
        tr == FoldTrace(chron)
    IN  /\ \A n \in 1..Len(chron) :
              IsSingles(chron[n].match) /\ Folded(tr, n) => Opposite(chron, tr, n)
        /\ (\A n \in 1..Len(chron) : IsSingles(chron[n].match)) =>
              \A mode \in SinglesModes : SumIsPar(tr[Len(chron) + 1], mode)

\* the two names of a singles match are different players
TwoPlayers(m) == m.player1 # m.player2

\* C1 for matches between two different players: every such folded singles
\* match moves its players by opposite deltas in the overall and in the
\* singles mode, and a log of such matches only keeps the sum of each mode at
\* 1500 per rated player
C1_ZeroSumSingles ==
    LET chron == Chron
        tr == FoldTrace(chron)
    IN  /\ \A n \in 1..Len(chron) :
              IsSingles(chron[n].match) /\ TwoPlayers(chron[n].match) /\ Folded(tr, n)
                  => Opposite(chron, tr, n)
        /\ (\A n \in 1..Len(chron) :
                IsSingles(chron[n].match) /\ TwoPlayers(chron[n].match)) =>
              \A mode \in SinglesModes : SumIsPar(tr[Len(chron) + 1], mode)

\* a second singles match between two players whose ratings already differ
C1_Witness ==
    LET chron == Chron
        tr == FoldTrace(chron)
    IN  /\ \A n \in 1..Len(chron) :
              IsSingles(chron[n].match) /\ TwoPlayers(chron[n].match)
        /\ \E n \in 2..Len(chron) :
              /\ Folded(tr, n)
              /\ get_r(tr[n].ratings.overall, chron[n].match.player1)
                    # get_r(tr[n].ratings.overall, chron[n].match.player2)
              /\ Delta(tr, "singles", n, chron[n].match.player1) # 0

\* the four names of a doubles match
Four(m) == <<m.team1.server, m.team1.partner, m.team2.receiver, m.team2.partner>>

\* the delta K * (actual - expected_team) of a match from the ratings a mode
\* holds before it
TeamDelta(pre, m) ==
    LET f == Four(m)
        r_t1 == (get_r(pre, f[1]) + get_r(pre, f[2])) \div 2
        r_t2 == (get_r(pre, f[3]) + get_r(pre, f[4])) \div 2
    IN  K * (DoublesRes(m) * Scale - expect(r_t1, r_t2))

\* the deltas of the n-th match, a doubles match, are those of the claim
DoublesDeltasOk(chron, tr, n) ==
    LET m == chron[n].match
        f == Four(m)
        sign == IF DoublesRes(m) = 1 THEN 1 ELSE -1
        td == [mode \in DoublesModes |-> TeamDelta(tr[n].ratings[mode], m)]
    IN  /\ \A mode \in DoublesModes :
              /\ Delta(tr, mode, n, f[1]) = td[mode]
              /\ Delta(tr, mode, n, f[2]) = td[mode]
              /\ Delta(tr, mode, n, f[3]) = -td[mode]
              /\ Delta(tr, mode, n, f[4]) = -td[mode]
        /\ (\A i \in 1..4 : get_r(tr[n].ratings.doubles, f[i]) = DefaultRating) =>
              /\ td.doubles = sign * 12 * Scale
              /\ Delta(tr, "doubles", n, f[1]) = sign * 12 * Scale
              /\ Delta(tr, "doubles", n, f[2]) = sign * 12 * Scale
              /\ Delta(tr, "doubles", n, f[3]) = -sign * 12 * Scale
              /\ Delta(tr, "doubles", n, f[4]) = -sign * 12 * Scale

\* C2 as stated: every folded doubles match gives K * (actual - expected_team)
\* to both members of team 1 and the negative of it to both members of
\* team 2, in the overall and in the doubles mode; four players at 1500 in
\* the doubles mode move by 12 each
C2_DoublesDeltaAnyTeams ==
    LET chron == Chron
        tr == FoldTrace(chron)
    IN  \A n \in 1..Len(chron) :
            IsDoubles(chron[n].match) /\ Folded(tr, n) => DoublesDeltasOk(chron, tr, n)

FourPlayers(m) == Cardinality({Four(m)[i] : i \in 1..4}) = 4

\* C2 for matches of four different players: every such folded doubles
\* match moves its players as C2 states
C2_DoublesDelta ==
    LET chron == Chron
        tr == FoldTrace(chron)
    IN  \A n \in 1..Len(chron) :
            IsDoubles(chron[n].match) /\ FourPlayers(chron[n].match) /\ Folded(tr, n)
                => DoublesDeltasOk(chron, tr, n)

\* a doubles match between four players at 1500, and a later one between
\* four different players whose teams differ in doubles rating
C2_Witness ==
    LET chron == Chron
        tr == FoldTrace(chron)
    IN  /\ \E n \in 1..Len(chron) :
              /\ IsDoubles(chron[n].match) /\ FourPlayers(chron[n].match) /\ Folded(tr, n)
              /\ \A i \in 1..4 :
                    get_r(tr[n].ratings.doubles, Four(chron[n].match)[i]) = DefaultRating
        /\ \E n \in 2..Len(chron) :
              /\ IsDoubles(chron[n].match) /\ FourPlayers(chron[n].match) /\ Folded(tr, n)
              /\ TeamDelta(tr[n].ratings.doubles, chron[n].match)
                    \notin {12 * Scale, -12 * Scale}
              /\ TeamDelta(tr[n].ratings.overall, chron[n].match)
                    # TeamDelta(tr[n].ratings.doubles, chron[n].match)

\* the names of a match, one per place
Names(m) == IF IsSingles(m) THEN <<m.player1, m.player2>> ELSE Four(m)

InMode(m, mode) ==
    \/ mode = "overall"
    \/ mode = "singles" /\ IsSingles(m)
    \/ mode = "doubles" /\ IsDoubles(m)

\* the places taken in the folded matches: <<n, i>> is the i-th name of the
\* n-th match
Places(chron, tr) ==
    {x \in (1..Len(chron)) \X (1..4) :
        Folded(tr, x[1]) /\ x[2] <= Len(Names(chron[x[1]].match))}

\* the places p takes in the matches of a mode
PlacesOf(chron, places, p, mode) ==
    {x \in places :
        InMode(chron[x[1]].match, mode) /\ Names(chron[x[1]].match)[x[2]] = p}

\* the folded matches of a mode in which p takes part
MatchesOf(chron, places, p, mode) == {x[1] : x \in PlacesOf(chron, places, p, mode)}

AllNames == {"A", "B", "C", "D"}

\* p is in neither output of a mode, in the result out of
\* get_elo_ratings_and_history and in the elo_ratings of the last report
Hidden(out, p, mode) ==
    /\ p \notin DOMAIN out[mode].current_ratings
    /\ p \notin DOMAIN out[mode].history
    /\ response.fn = "get_all_statistics" =>
          /\ p \notin DOMAIN response.value.elo_ratings[mode].current_ratings
          /\ p \notin DOMAIN response.value.elo_ratings[mode].history

\* C3 as stated: an entity that took part in fewer than 3 matches of a mode
\* is in neither current_ratings nor history of that mode
C3_GateByMatches ==
    LET chron == Chron
        places == Places(chron, FoldTrace(chron))
        out == get_elo_ratings_and_history(data).result
    IN  \A mode \in Modes, p \in AllNames :
            Cardinality(MatchesOf(chron, places, p, mode)) < MIN_MATCHES
                => Hidden(out, p, mode)

\* C3 by places: an entity that took fewer than 3 places in the folded
\* matches of a mode (a player named twice in a match takes two) is in
\* neither current_ratings nor history of that mode
C3_GateByPlaces ==
    LET chron == Chron
        places == Places(chron, FoldTrace(chron))
        out == get_elo_ratings_and_history(data).result
    IN  \A mode \in Modes, p \in AllNames :
            Cardinality(PlacesOf(chron, places, p, mode)) < MIN_MATCHES
                => Hidden(out, p, mode)

\* a report in which one player is shown in the doubles mode and another,
\* rated there, is not
C3_Witness ==
    LET chron == Chron
        places == Places(chron, FoldTrace(chron))
        out == get_elo_ratings_and_history(data).result
    IN  /\ response.fn = "get_all_statistics"
        /\ \E p, q \in AllNames :
              /\ p \in DOMAIN response.value.elo_ratings.doubles.current_ratings
              /\ p \in DOMAIN response.value.elo_ratings.doubles.history
              /\ Cardinality(PlacesOf(chron, places, q, "doubles")) \in {1, 2}
              /\ Hidden(out, q, "doubles")


\* the log with the matches i and i + 1 of the day entry e exchanged
SwapAdjacent(d, e, i) ==
    [d EXCEPT ![e].matches =
        [j \in 1..Len(d[e].matches) |->
            IF j = i THEN d[e].matches[i + 1]
            ELSE IF j = i + 1 THEN d[e].matches[i]
            ELSE d[e].matches[j]]]

Participants(m) == {Names(m)[i] : i \in 1..Len(Names(m))}

\* the adjacent pairs of matches of one day entry
AdjacentPairs(d) ==
    {x \in (1..Len(d)) \X (1..MaxLong) : x[2] + 1 <= Len(d[x[1]].matches)}

Disjoint(d, x) ==
    Participants(d[x[1]].matches[x[2]]) \cap Participants(d[x[1]].matches[x[2] + 1]) = {}

\* the ratings of every player in every mode at the end of the log
FinalRatings(d) == EloFold(BaselineChron(d), Len(BaselineChron(d))).ratings

\* C4: exchanging two adjacent matches of a day that share no participant
\* changes neither the ratings at the end of the fold nor the ratings and
\* histories get_elo_ratings_and_history hands out
C4_DisjointSwapCommutes ==
    LET final == FinalRatings(data)
        out == get_elo_ratings_and_history(data)
    IN  \A x \in AdjacentPairs(data) :
            Disjoint(data, x) =>
                /\ FinalRatings(SwapAdjacent(data, x[1], x[2])) = final
                /\ get_elo_ratings_and_history(SwapAdjacent(data, x[1], x[2])) = out

\* a day with two adjacent matches of different players that both moved
\* ratings, next to a pair that shares its players and whose exchange does
\* change the ratings at the end
C4_Witness ==
    /\ \E x \in AdjacentPairs(data) :
          /\ Disjoint(data, x)
          /\ \A i \in {x[2], x[2] + 1} :
                /\ TwoPlayers(data[x[1]].matches[i])
                /\ SinglesRes(data[x[1]].matches[i]) # -1
          /\ SwapAdjacent(data, x[1], x[2]) # data
    /\ \E y \in AdjacentPairs(data) :
          /\ ~Disjoint(data, y)
          /\ FinalRatings(SwapAdjacent(data, y[1], y[2])) # FinalRatings(data)


\* the n-th match is a singles match won 21-15 between two different players
\* that no earlier match of the fold has referenced
FreshScoreMatch(chron, tr, n) ==
    LET m == chron[n].match
    IN  /\ IsSingles(m) /\ TwoPlayers(m)
        /\ m.result_type = "score"
        /\ <<m.score.player1, m.score.player2>> \in {<<21, 15>>, <<15, 21>>}
        /\ m.player1 \notin DOMAIN tr[n].ratings.overall
        /\ m.player2 \notin DOMAIN tr[n].ratings.overall

\* C5: a singles match won 21-15 between two players never referenced before
\* has the expected probabilities 0.5 and 0.5 in the expected map and leaves
\* the winner at 1512 and the loser at 1488 in the overall and in the
\* singles mode
C5_ScoreScenario ==
    LET chron == Chron
        tr == FoldTrace(chron)
        expected_map == get_match_expected_map(data)
    IN  \A n \in 1..Len(chron) :
            FreshScoreMatch(chron, tr, n) =>
                LET m == chron[n].match
                    winner == IF m.score.player1 > m.score.player2 THEN m.player1 ELSE m.player2
                    loser == IF m.score.player1 > m.score.player2 THEN m.player2 ELSE m.player1
                IN  /\ m.id \in DOMAIN expected_map
                    /\ expected_map[m.id].expected_1 = Scale \div 2
                    /\ expected_map[m.id].expected_2 = Scale \div 2
                    /\ \A mode \in SinglesModes :
                          /\ tr[n + 1].ratings[mode][winner] = 1512 * Scale
                          /\ tr[n + 1].ratings[mode][loser] = 1488 * Scale

\* such a match at the start of a log, and one that follows matches of
\* other players whose ratings have moved
C5_Witness ==
    LET chron == Chron
        tr == FoldTrace(chron)
    IN  /\ Len(chron) >= 2
        /\ FreshScoreMatch(chron, tr, 1)
        /\ \E n \in 2..Len(chron) :
              /\ FreshScoreMatch(chron, tr, n)
              /\ \E p \in DOMAIN tr[n].ratings.overall :
                    tr[n].ratings.overall[p] # DefaultRating


\* the indicators that name a side as the winner of a match of a type
Indicators(type, side) ==
    IF type = "singles"
    THEN (IF side = 1 THEN {"W", "P1", "w", "p1"} ELSE {"L", "P2", "l", "p2"})
    ELSE (IF side = 1 THEN {"W", "T1", "w", "t1"} ELSE {"L", "T2", "l", "t2"})

\* scores won by a side, by margins from one point to a whitewash
Margins(side) ==
    IF side = 1 THEN {<<21, 15>>, <<21, 0>>, <<22, 20>>, <<2, 1>>}
    ELSE {<<15, 21>>, <<0, 21>>, <<20, 22>>, <<1, 2>>}

\* the record the parser makes of a line of the names and a result
Recorded(names, tok) == ParseLine(Line(names, tok), <<"2025-09-01", 1>>)[1]

\* the records of the match of the names, by every indicator of the side
\* and by every score won by the side
WinlossRecords(names, side) ==
    {Recorded(names, WordTok(w)) :
        w \in Indicators(IF Len(names) = 2 THEN "singles" ELSE "doubles", side)}

ScoreRecords(names, side) ==
    {Recorded(names, ScoreTok(s[1], s[2])) : s \in Margins(side)}

\* from the state st, all the records lead to one and the same state, and
\* the match is counted
SameUpdate(st, records) ==
    LET after == EloStep(st, CHOOSE r \in records : TRUE)
    IN  /\ after.matches_played # st.matches_played
        /\ \A r \in records : EloStep(st, r) = after

\* C6: from the state the fold is in before a match, the match recorded with
\* an indicator that names a side as winner and the match recorded with a
\* score won by that side, by any margin, lead to the same ratings and the
\* same matches_played, and both are counted
C6_WinlossAsScore ==
    LET chron == Chron
        tr == FoldTrace(chron)
    IN  \A n \in 1..Len(chron), side \in {1, 2} :
            LET names == Names(chron[n].match)
                winloss == WinlossRecords(names, side)
                score == ScoreRecords(names, side)
            IN  /\ \A r \in winloss : r.result_type = "winloss"
                /\ \A r \in score : r.result_type = "score"
                /\ SameUpdate(tr[n], winloss \cup score)

\* a log in which a singles and a doubles match recorded by an indicator
\* were folded from ratings that earlier matches had moved
C6_Witness ==
    LET chron == Chron
        tr == FoldTrace(chron)
    IN  \A type \in {"singles", "doubles"} :
            \E n \in 2..Len(chron) :
                /\ chron[n].match.type = type
                /\ chron[n].match.result_type = "winloss"
                /\ Folded(tr, n)
                /\ \E p \in Participants(chron[n].match) :
                      get_r(tr[n].ratings.overall, p) # DefaultRating


\* the states of the hybrid fold: htr[n] before and htr[n + 1] after the
\* n-th match of hchron
HybridTrace(hchron) ==
    SubSeq([i \in 1..(Len(hchron) + 1) |-> HybridFold(hchron, i - 1)], 1, Len(hchron) + 1)

\* the modes a match of a type updates, and the mode it leaves alone
ModesOf(m) == IF IsSingles(m) THEN SinglesModes ELSE DoublesModes
OtherMode(m) == IF IsSingles(m) THEN "doubles" ELSE "singles"

\* the state st with every pool but the one of the mode emptied
OnlyPool(st, mode) ==
    [st EXCEPT !.ratings = [x \in Modes |-> IF x = mode THEN st.ratings[x] ELSE EmptyDict]]

OnlyHybridPool(elo, mode) == [x \in Modes |-> IF x = mode THEN elo[x] ELSE EmptyDict]

\* C7: in the baseline fold a singles match leaves the doubles ratings and
\* the doubles matches_played as they were, a doubles match the singles
\* ones, and the ratings a match gives a mode are those it gives when the
\* other two pools are empty; the same holds of the ratings of the hybrid
\* fold
C7_PoolsIndependent ==
    LET chron == Chron
        tr == FoldTrace(chron)
        hchron == HybridChron(data)
        htr == HybridTrace(hchron)
    IN  /\ \A n \in 1..Len(chron) :
              LET m == chron[n].match
              IN  /\ tr[n + 1].ratings[OtherMode(m)] = tr[n].ratings[OtherMode(m)]
                  /\ tr[n + 1].matches_played[OtherMode(m)] = tr[n].matches_played[OtherMode(m)]
                  /\ \A mode \in ModesOf(m) :
                        EloStep(OnlyPool(tr[n], mode), m).ratings[mode] = tr[n + 1].ratings[mode]
        /\ \A n \in 1..Len(hchron) :
              LET m == hchron[n].match
              IN  /\ htr[n + 1][OtherMode(m)] = htr[n][OtherMode(m)]
                  /\ \A mode \in ModesOf(m) :
                        HybridStep(OnlyHybridPool(htr[n], mode), m)[mode] = htr[n + 1][mode]

\* a singles match folded after doubles matches have set its players apart
\* in the overall pool only, and a doubles match folded after a singles
\* match has moved one of its players
C7_Witness ==
    LET chron == Chron
        tr == FoldTrace(chron)
    IN  /\ \E n \in 2..Len(chron) :
              LET m == chron[n].match
              IN  /\ IsSingles(m) /\ Folded(tr, n)
                  /\ get_r(tr[n].ratings.overall, m.player1) # get_r(tr[n].ratings.overall, m.player2)
                  /\ get_r(tr[n].ratings.singles, m.player1) = get_r(tr[n].ratings.singles, m.player2)
                  /\ tr[n].ratings.doubles # EmptyDict
        /\ \E n \in 2..Len(chron) :
              /\ IsDoubles(chron[n].match) /\ Folded(tr, n)
              /\ tr[n].ratings.singles # EmptyDict


(***************************************************************************)
(* Properties of the upset lists                                           *)
(***************************************************************************)
\* the side that won a match: by the score of a score record, by the
\* indicator of a win/loss record; 0 when neither side did
WinnerSide(m) ==
    LET s1 == IF IsSingles(m) THEN m.score.player1 ELSE m.score.team1
        s2 == IF IsSingles(m) THEN m.score.player2 ELSE m.score.team2
        res1 == IF IsSingles(m) THEN SinglesRes(m) ELSE DoublesRes(m)
    IN  IF m.result_type = "score"
        THEN (IF s1 > s2 THEN 1 ELSE IF s2 > s1 THEN 2 ELSE 0)
        ELSE (IF res1 = 1 THEN 1 ELSE IF res1 = 0 THEN 2 ELSE 0)

\* the expected probability the map holds for the winner of a match
WinnerExpected(m, expected_map) ==
    IF WinnerSide(m) = 1 THEN expected_map[m.id].expected_1
    ELSE expected_map[m.id].expected_2

\* the match won by a side whose expected probability was below 0.5
Surprise(m, expected_map) ==
    /\ WinnerSide(m) # 0
    /\ m.id \in DOMAIN expected_map
    /\ WinnerExpected(m, expected_map) < Scale \div 2

\* what an upset entry says of its match, but for winner_win_prob; the
\* magnitude 0.5 - p is reported as a percentage with one decimal
Described(item, expected_map) ==
    LET m == item.match
        one == WinnerSide(m) = 1
        names == Names(m)
        side1 == IF IsSingles(m) THEN names[1] ELSE <<names[1], names[2]>>
        side2 == IF IsSingles(m) THEN names[2] ELSE <<names[3], names[4]>>
        s1 == IF IsSingles(m) THEN m.score.player1 ELSE m.score.team1
        s2 == IF IsSingles(m) THEN m.score.player2 ELSE m.score.team2
    IN  [date |-> item.date,
         winner |-> IF one THEN side1 ELSE side2,
         loser |-> IF one THEN side2 ELSE side1,
         score |-> IF one THEN <<s1, s2>> ELSE <<s2, s1>>,
         upset_magnitude |-> RoundPct((Scale \div 2) - WinnerExpected(m, expected_map))]

EntryDescribed(u) ==
    [date |-> u.date, winner |-> u.winner, loser |-> u.loser, score |-> u.score,
     upset_magnitude |-> u.upset_magnitude]

\* the surprises of a kind, as a list of descriptions in log order
Surprises(d, kind) ==
    LET flat == Flatten(d)
        expected_map == get_match_expected_map(d)
        hits == SelectSeq(flat, LAMBDA x : x.match.type = kind /\ Surprise(x.match, expected_map))
    IN  SubSeq([i \in 1..Len(hits) |-> Described(hits[i], expected_map)], 1, Len(hits))

Listed(d, kind) ==
    LET list == get_biggest_upsets(d)[kind]
    IN  SubSeq([i \in 1..Len(list) |-> EntryDescribed(list[i])], 1, Len(list))

\* how often x occurs in the list s
Count(s, x) == Cardinality({i \in 1..Len(s) : s[i] = x})

Kinds == {"singles", "doubles"}

C9_WinnerOwnProbability ==
    LET flat == Flatten(data)
        expected_map == get_match_expected_map(data)
        upsets == get_biggest_upsets(data)
    IN  \A kind \in Kinds :
            \A k \in 1..Len(upsets[kind]) :
                LET u == upsets[kind][k]
                IN  /\ u.winner_win_prob < 500
                    /\ \E i \in 1..Len(flat) :
                          /\ flat[i].match.type = kind
                          /\ Surprise(flat[i].match, expected_map)
                          /\ Described(flat[i], expected_map) = EntryDescribed(u)
                          /\ u.winner_win_prob
                                = RoundPct(WinnerExpected(flat[i].match, expected_map))


(***************************************************************************)
(* Properties of the head-to-head records                                  *)
(***************************************************************************)
\* the singles matches with two non-empty names between the players a and b
MatchesBetween(flat, a, b) ==
    {i \in 1..Len(flat) :
        /\ IsSingles(flat[i].match)
        /\ flat[i].match.player1 # "" /\ flat[i].match.player2 # ""
        /\ {flat[i].match.player1, flat[i].match.player2} = {a, b}}

Tied(m) == m.score.player1 = m.score.player2

\* C10: the head-to-head records are keyed by the pairs of the singles
\* matches with the alphabetically first player first, whichever was listed
\* first; 'matches' counts every such match of the pair, and the wins of the
\* two sides add up to the matches that were not tied, so to at most
\* 'matches' and to 'matches' exactly when the pair has no tied match
C10_HeadToHeadCounts ==
    LET flat == Flatten(data)
        records == get_head_to_head_singles(data)
    IN  /\ \A a, b \in AllNames :
              MatchesBetween(flat, a, b) # {} =>
                  \E k \in DOMAIN records : {k[1], k[2]} = {a, b}
        /\ \A k \in DOMAIN records :
              LET between == MatchesBetween(flat, k[1], k[2])
                  ties == {i \in between : Tied(flat[i].match)}
                  rec == records[k]
              IN  /\ NameRank(k[1]) <= NameRank(k[2])
                  /\ rec.p1 = k[1] /\ rec.p2 = k[2]
                  /\ rec.matches = Cardinality(between)
                  /\ rec.matches > 0
                  /\ rec.wins_p1 + rec.wins_p2 = rec.matches - Cardinality(ties)
                  /\ rec.wins_p1 + rec.wins_p2 <= rec.matches
                  /\ (rec.wins_p1 + rec.wins_p2 = rec.matches) <=> (ties = {})

\* a pair that met with either player listed first, with wins on both sides
\* and with a tied match
C10_Witness ==
    LET flat == Flatten(data)
        records == get_head_to_head_singles(data)
    IN  \E k \in DOMAIN records :
            /\ k[1] # k[2]
            /\ \E i, j \in MatchesBetween(flat, k[1], k[2]) :
                  /\ flat[i].match.player1 = k[1]
                  /\ flat[j].match.player1 = k[2]
            /\ \E i \in MatchesBetween(flat, k[1], k[2]) : Tied(flat[i].match)
            /\ records[k].wins_p1 + records[k].wins_p2 = 2
            /\ records[k].matches = 3

RecognisedIndicators == {"W", "L", "P1", "P2", "T1", "T2"}

\* C12: the log holds no match record made from a line whose result is
\* neither a score nor one of the indicators W, L, P1, P2, T1, T2 in either
\* case: every winloss record carries one of the six indicators
C12_UnrecognisedRejected ==
    LET flat == Flatten(data)
    IN  \A i \in 1..Len(flat) :
            flat[i].match.result_type = "winloss"
                => flat[i].match.result_value \in RecognisedIndicators

\* C13: no match record of the log, all of them made by
\* parse_ping_pong_matches, is score-encoded with the same score on both
\* sides
C13_NoTiedScore ==
    LET flat == Flatten(data)
    IN  \A i \in 1..Len(flat) :
            flat[i].match.result_type = "score"
                => Score1(flat[i].match) # Score2(flat[i].match)

(***************************************************************************)
(* Dates that are no dates                                                 *)
(***************************************************************************)
\* some day entry of the log carries a non-empty date that is no date
HasBadDate == \E i \in 1..Len(data) : data[i].date # "" /\ strptime(data[i].date) = 0

\* C14: a statistics report asked for with a day entry under a non-empty
\* date that is no date in the log is computed without an error, none being
\* raised by the baseline pass
C14_BadDateNoFailure ==
    (HasBadDate /\ response.fn = "get_all_statistics") => response.value.error = ""

(***************************************************************************)
(* Properties of the player tallies                                        *)
(***************************************************************************)
\* how often the name p stands in the list side
Occurrences(side, p) == Cardinality({i \in 1..Len(side) : side[i] = p})

\* n times the value x
Repeat(x, n) == [i \in 1..n |-> x]

\* the results of the player p in the order get_player_stats comes to them:
\* TRUE for a win, FALSE for a loss, one for each place p takes in a match,
\* the side that scored more (the second side when neither did) winning
RECURSIVE ResultsOf(_, _, _)
ResultsOf(flat, p, n) ==
    IF n = 0 THEN <<>>
    ELSE LET m == flat[n].match
             first_won == Score1(m) > Score2(m)
             winners == IF first_won THEN Side1(m) ELSE Side2(m)
             losers == IF first_won THEN Side2(m) ELSE Side1(m)
         IN  ResultsOf(flat, p, n - 1)
             \o (IF AllGiven(m)
                 THEN Repeat(TRUE, Occurrences(winners, p))
                      \o Repeat(FALSE, Occurrences(losers, p))
                 ELSE <<>>)

\* the counter after one more result, as C19 states it
NextStreak(previous, won) ==
    IF won THEN (IF previous > 0 THEN previous + 1 ELSE 1)
    ELSE (IF previous < 0 THEN previous - 1 ELSE -1)

\* the counter after the first n results
RECURSIVE StreakAfter(_, _)
StreakAfter(results, n) ==
    IF n = 0 THEN 0 ELSE NextStreak(StreakAfter(results, n - 1), results[n])

\* the largest positive value the counter reached, 0 without a win
LargestStreak(results) ==
    LET reached == {StreakAfter(results, n) : n \in 0..Len(results)}
    IN  CHOOSE x \in reached : \A y \in reached : y <= x

\* C19: for every player, current_streak is the signed counter of the
\* results (a win gives previous + 1 after a positive value and 1 otherwise,
\* a loss previous - 1 after a negative value and -1 otherwise), it is not 0
\* once the player has played, best_streak is the largest positive value the
\* counter reached (0 without a win) and best_streak >= current_streak
C19_Streaks ==
    LET flat == Flatten(data)
        stats == get_player_stats(data)
    IN  \A p \in DOMAIN stats :
            LET results == ResultsOf(flat, p, Len(flat))
            IN  /\ stats[p].current_streak = StreakAfter(results, Len(results))
                /\ stats[p].total_played > 0 => stats[p].current_streak # 0
                /\ stats[p].best_streak = LargestStreak(results)
                /\ stats[p].best_streak >= stats[p].current_streak

\* a player lost and then won, and another won twice and then lost
C19_Witness ==
    LET stats == get_player_stats(data)
    IN  /\ \E p \in DOMAIN stats :
               stats[p].current_streak = 1 /\ stats[p].total_played = 3
                   /\ stats[p].total_won = 1
        /\ \E p \in DOMAIN stats :
               stats[p].best_streak = 2 /\ stats[p].current_streak = -1

\* the side a win/loss record names as the winner
NamedWinner(m) == IF m.result_value \in {"W", "P1", "T1"} THEN 1 ELSE 2

\* the counters of the other type, of the entry stats
OtherPlayed(stats, type) ==
    IF type = "singles" THEN stats.doubles_played ELSE stats.singles_played
OtherWon(stats, type) ==
    IF type = "singles" THEN stats.doubles_won ELSE stats.singles_won
SamePlayed(stats, type) ==
    IF type = "singles" THEN stats.singles_played ELSE stats.doubles_played
SameWon(stats, type) ==
    IF type = "singles" THEN stats.singles_won ELSE stats.doubles_won

Orders(n) == {f \in [1..n -> 1..n] : \A i, j \in 1..n : f[i] = f[j] => i = j}

\* the log with its day entries in the order f
Permuted(d, f) == [i \in 1..Len(d) |-> d[f[i]]]

\* current_streak and best_streak of every player
Streaks(stats) ==
    [p \in DOMAIN stats |->
        [current_streak |-> stats[p].current_streak, best_streak |-> stats[p].best_streak]]

\* C16: the streaks get_player_stats reports are the same in whatever order
\* the day entries of the log stand
C16_StreaksAnyOrder ==
    \A f \in Orders(Len(data)) :
        Streaks(get_player_stats(Permuted(data, f))) = Streaks(get_player_stats(data))

(***************************************************************************)
(* The expected map against the baseline fold                              *)
(***************************************************************************)
\* the expectation of the first side of m that the baseline update takes
\* from the ratings of a pool
BaselineExpected(ratings, m) ==
    IF m.type = "singles"
    THEN expect(get_r(ratings, m.player1), get_r(ratings, m.player2))
    ELSE expect((get_r(ratings, m.team1.server) + get_r(ratings, m.team1.partner)) \div 2,
                (get_r(ratings, m.team2.receiver) + get_r(ratings, m.team2.partner)) \div 2)

\* the entry of the n-th match of the baseline fold is the expectation the
\* baseline takes from its overall pool before the match
ExpectedAsBaseline(chron, tr, expected_map, n) ==
    LET m == chron[n].match
    IN  /\ m.id \in DOMAIN expected_map
        /\ expected_map[m.id].expected_1 = BaselineExpected(tr[n].ratings.overall, m)
        /\ expected_map[m.id].expected_1 + expected_map[m.id].expected_2 = Scale

\* C17: every match with an id has an entry in the expected map, the two
\* probabilities of the entry add up to 1, and the first is the expectation
\* of the baseline engine in its overall pool before the match
C17_ExpectedIsBaseline ==
    LET chron == Chron
        tr == FoldTrace(chron)
        expected_map == get_match_expected_map(data)
    IN  \A n \in 1..Len(chron) :
            chron[n].match.id # NoId => ExpectedAsBaseline(chron, tr, expected_map, n)

\* C17 for logs in which no match names a player twice
C17_ExpectedIsBaselineDistinct ==
    LET chron == Chron
        tr == FoldTrace(chron)
        expected_map == get_match_expected_map(data)
    IN  (\A n \in 1..Len(chron) :
            Cardinality(Participants(chron[n].match)) = Len(Names(chron[n].match)))
        => \A n \in 1..Len(chron) :
               chron[n].match.id # NoId => ExpectedAsBaseline(chron, tr, expected_map, n)

\* what the four rating passes hand out
RatingOutputs(d) ==
    [baseline |-> get_elo_ratings_and_history(d),
     hybrid |-> get_hybrid_elo_ratings(d, elo_window),
     expected_map |-> get_match_expected_map(d),
     match_history |-> get_match_history(d)]

\* every day entry has a date of the calendar and no two the same
DistinctValidDates(d) ==
    /\ \A i \in 1..Len(d) : strptime(d[i].date) # 0
    /\ \A i, j \in 1..Len(d) : d[i].date = d[j].date => i = j

\* chron holds the matches of the log by ascending date, those of one date
\* in the order of the log
DateOrder(chron, flat) ==
    /\ Len(chron) = Len(flat)
    /\ \A i, j \in 1..Len(chron) :
           i < j =>
               \/ strptime(chron[i].date) < strptime(chron[j].date)
               \/ /\ chron[i].date = chron[j].date
                  /\ (CHOOSE k \in 1..Len(flat) : flat[k] = chron[i])
                         < (CHOOSE k \in 1..Len(flat) : flat[k] = chron[j])

ZeroRate(played, rate) == played = 0 => rate = 0

\* the report of an empty log: no raise, every collection empty, every
\* number zero, and only the registered players in player_stats
EmptyOrZeroed(report) ==
    /\ report.error = ""
    /\ DOMAIN report.player_stats = registered_players
    /\ \A p \in DOMAIN report.player_stats :
           report.player_stats[p] = Derived(NewPlayerStats)
    /\ report.match_history = <<>>
    /\ report.match_analytics =
           [total_matches |-> 0, singles_matches |-> 0, doubles_matches |-> 0,
            avg_score_difference |-> 0, common_matchups |-> <<>>,
            day_frequency |-> EmptyDict]
    /\ DOMAIN report.team_dynamics = {}
    /\ report.score_patterns =
           [avg_points_per_player |-> 0, median_score_difference |-> 0,
            closest_matches |-> <<>>, decisive_victories |-> <<>>,
            score_distribution |-> EmptyDict]
    /\ report.temporal_analysis =
           [time_series |-> [dates |-> <<>>, match_counts |-> <<>>, point_counts |-> <<>>],
            most_active_date |-> None, matches_by_date |-> EmptyDict]
    /\ DOMAIN report.doubles_serving.player_pairs = {}
    /\ DOMAIN report.doubles_serving.match_groups = {}
    /\ DOMAIN report.head_to_head_singles = {}
    /\ report.total_points = 0
    /\ \A mode \in Modes :
           /\ DOMAIN report.elo_ratings[mode].current_ratings = {}
           /\ DOMAIN report.elo_ratings[mode].history = {}
    /\ report.biggest_upsets = [singles |-> <<>>, doubles |-> <<>>]

\* every rate of a report that did not fail is a number that was computed,
\* and it is 0 where its denominator is 0
RatesGuarded(report) ==
    /\ \A p \in DOMAIN report.player_stats :
           LET stats == report.player_stats[p]
           IN  /\ ZeroRate(stats.total_played, stats.win_percentage)
               /\ ZeroRate(stats.singles_played, stats.singles_win_percentage)
               /\ ZeroRate(stats.doubles_played, stats.doubles_win_percentage)
               /\ stats.win_percentage # ZeroDivisionError
               /\ stats.singles_win_percentage # ZeroDivisionError
               /\ stats.doubles_win_percentage # ZeroDivisionError
    /\ \A team \in DOMAIN report.team_dynamics :
           LET stats == report.team_dynamics[team]
           IN  /\ ZeroRate(stats.played, stats.win_rate)
               /\ ZeroRate(stats.score_matches, stats.point_diff_per_game)
               /\ stats.win_rate # ZeroDivisionError
    /\ \A server \in DOMAIN report.doubles_serving.player_pairs :
           \A receiver \in DOMAIN report.doubles_serving.player_pairs[server] :
               LET stats == report.doubles_serving.player_pairs[server][receiver]
               IN  ZeroRate(stats.matches, stats.win_rate)
                   /\ stats.win_rate # ZeroDivisionError
    /\ \A key \in DOMAIN report.doubles_serving.match_groups :
           \A config \in DOMAIN report.doubles_serving.match_groups[key].configurations :
               LET stats == report.doubles_serving.match_groups[key].configurations[config]
               IN  ZeroRate(stats.matches, stats.win_rate)
                   /\ stats.win_rate # ZeroDivisionError
    /\ \A key \in DOMAIN report.head_to_head_singles :
           LET stats == report.head_to_head_singles[key]
           IN  /\ ZeroRate(stats.matches, stats.win_rate_p1)
               /\ ZeroRate(stats.matches, stats.win_rate_p2)
    /\ report.score_patterns.score_distribution = EmptyDict
           => /\ report.score_patterns.avg_points_per_player = 0
              /\ report.score_patterns.median_score_difference = 0
    /\ report.total_points = 0 => report.match_analytics.avg_score_difference = 0

\* C15: the report of an empty log is the empty, zeroed report, and in the
\* report of any log that is read without a failure every rate or percentage
\* with a zero denominator is 0: the win percentages of a player without
\* matches of the kind, the rates of a partnership, of a serving pair, of a
\* configuration and of a head-to-head record, and the averages over no score.
C15_EmptyAndZeroRates ==
    response.fn = "get_all_statistics" =>
        /\ data = <<>> => EmptyOrZeroed(response.value)
        /\ response.value.error = "" => RatesGuarded(response.value)

\* a report of a log with matches in which a registered player has no match,
\* another player has doubles but no singles, and a partnership has no match
\* with a real score
C15_Witness ==
    /\ response.fn = "get_all_statistics"
    /\ response.value.error = ""
    /\ data # <<>>
    /\ \E p \in registered_players :
           /\ response.value.player_stats[p].total_played = 0
           /\ response.value.player_stats[p].win_percentage = 0
    /\ \E p \in DOMAIN response.value.player_stats :
           /\ response.value.player_stats[p].doubles_played > 0
           /\ response.value.player_stats[p].singles_played = 0
           /\ response.value.player_stats[p].singles_win_percentage = 0
    /\ \E team \in DOMAIN response.value.team_dynamics :
           /\ response.value.team_dynamics[team].played > 0
           /\ response.value.team_dynamics[team].score_matches = 0
           /\ response.value.team_dynamics[team].point_diff_per_game = 0

(***************************************************************************)
(* C21                                                                     *)
(***************************************************************************)
\* the sorted date axis: the dates of the calendar under which the log has a
\* match
Axis(flat) ==
    SelectSeq(Calendar, LAMBDA c : \E i \in 1..Len(flat) : flat[i].date = c)

\* the matches of a mode that name p, on a date or up to a date
PlayedOn(flat, p, mode, date) ==
    {i \in 1..Len(flat) :
        /\ flat[i].date = date
        /\ InMode(flat[i].match, mode)
        /\ Occurrences(Names(flat[i].match), p) > 0}

PlayedUpTo(flat, p, mode, date) ==
    {i \in 1..Len(flat) :
        /\ strptime(flat[i].date) <= strptime(date)
        /\ InMode(flat[i].match, mode)
        /\ Occurrences(Names(flat[i].match), p) > 0}

\* the places p took in the matches of a mode up to a date: a match that
\* names p twice counts twice
PlacesUpTo(flat, p, mode, date) ==
    SeqSum([i \in 1..Len(flat) |->
               IF i \in PlayedUpTo(flat, p, mode, date)
               THEN Occurrences(Names(flat[i].match), p) ELSE 0])

\* the axis from the first date at whose end p had MIN_MATCHES matches of
\* the mode (or places, when by_places), empty when there is no such date
SeriesDates(flat, p, mode, by_places) ==
    LET axis == Axis(flat)
        reached == {i \in 1..Len(axis) :
                       IF by_places
                       THEN PlacesUpTo(flat, p, mode, axis[i]) >= MIN_MATCHES
                       ELSE Cardinality(PlayedUpTo(flat, p, mode, axis[i])) >= MIN_MATCHES}
    IN  IF reached = {} THEN <<>>
        ELSE SubSeq(axis, CHOOSE i \in reached : \A j \in reached : i <= j, Len(axis))

\* every series of the report runs over SeriesDates and repeats the rating
\* on a date without a match of p
Densified(by_places) ==
    (response.fn = "get_all_statistics" /\ response.value.error = "") =>
        LET flat == Flatten(data)
        IN  \A mode \in Modes :
                \A p \in DOMAIN response.value.elo_ratings[mode].history :
                    LET series == response.value.elo_ratings[mode].history[p]
                    IN  /\ [i \in 1..Len(series) |-> series[i].date]
                              = SeriesDates(flat, p, mode, by_places)
                        /\ \A i \in 2..Len(series) :
                               PlayedOn(flat, p, mode, series[i].date) = {}
                                   => series[i].rating = series[i - 1].rating

\* C21 as stated: each history series of the report has one entry for every
\* date of the sorted axis from the first date at whose end the entity had
\* played 3 matches of the context, in ascending order, none before, and on a
\* date without a match of the entity the rating of the entry before
C21_Densified == Densified(FALSE)

\* C21 by places: the same with a match that names the entity twice counted
\* twice
C21_DensifiedByPlaces == Densified(TRUE)

\* a report with a series of two dates whose second entry, on a date on
\* which the entity did not play, repeats the first
C21_Witness ==
    /\ response.fn = "get_all_statistics"
    /\ response.value.error = ""
    /\ \E p \in DOMAIN response.value.elo_ratings.overall.history :
           LET series == response.value.elo_ratings.overall.history[p]
           IN  /\ Len(series) = 2
               /\ PlayedOn(Flatten(data), p, "overall", series[2].date) = {}
               /\ series[2].rating = series[1].rating

(***************************************************************************)
(* Properties of the hybrid fold                                           *)
(*                                                                         *)
(* hchron is the list of matches in the order the hybrid pass folds them,  *)
(* htr the states of the fold: htr[n] before and htr[n + 1] after the n-th *)
(* match.                                                                  *)
(***************************************************************************)
\* the change of a player's hybrid rating in a mode by the n-th match
HybridChange(htr, mode, n, p) ==
    get_r(htr[n + 1][mode], p) - get_r(htr[n][mode], p)

\* k_factor * (actual - expected_team) for team 1 of a doubles match, from
\* the ratings a mode holds before it: the delta of the baseline rule with
\* the k_factor of the match in the place of K
FullTeamDelta(pre, m) ==
    LET f == Four(m)
        r_t1 == (get_r(pre, f[1]) + get_r(pre, f[2])) \div 2
        r_t2 == (get_r(pre, f[3]) + get_r(pre, f[4])) \div 2
        actual == IF m.score.team1 > m.score.team2 THEN 1 ELSE 0
    IN  HybridDelta(KFactor3(m.score.team1, m.score.team2), actual, expect(r_t1, r_t2))

\* C22: in the hybrid fold a doubles match between four players changes the
\* rating of each player of team 1 by the full team delta k_factor * (actual
\* - expected_team), in the doubles and in the overall mode, and the rating
\* of each player of team 2 by its opposite, as the baseline rule does.
C22_HybridFullDelta ==
    LET hchron == HybridChron(data)
        htr == HybridTrace(hchron)
    IN  \A n \in 1..Len(hchron) :
            LET m == hchron[n].match
                f == Four(m)
            IN  IsDoubles(m) /\ FourPlayers(m) =>
                    \A mode \in DoublesModes :
                        LET full == FullTeamDelta(htr[n][mode], m)
                        IN  /\ HybridChange(htr, mode, n, f[1]) = full
                            /\ HybridChange(htr, mode, n, f[2]) = full
                            /\ HybridChange(htr, mode, n, f[3]) = -full
                            /\ HybridChange(htr, mode, n, f[4]) = -full

(***************************************************************************)
(* C23                                                                     *)
(***************************************************************************)
\* three times the K-factor of the claim: 32 * (1 + min(margin / 3, 2)) for
\* a score-encoded match, 32 for a winloss-encoded one
EncodedK3(m) ==
    IF m.result_type = "score" THEN base_k * (3 + Min(ScoreDifference(m), 6))
    ELSE base_k * 3

\* the n-th match of the hybrid fold moved the first player of side 1, in
\* each mode it updates, by the delta of the K-factor k3; the actual result
\* is the one the pass reads from the score, the delta of a doubles match is
\* divided by two as the pass does
MovedWithK3(hchron, htr, n, k3) ==
    LET m == hchron[n].match
        actual == IF Score1(m) > Score2(m) THEN 1 ELSE 0
    IN  \A mode \in ModesOf(m) :
            LET pre == htr[n][mode]
            IN  IF IsSingles(m)
                THEN HybridChange(htr, mode, n, m.player1)
                        = HybridDelta(k3, actual,
                                      QShare(get_r(pre, m.player1), get_r(pre, m.player2)))
                ELSE HybridChange(htr, mode, n, m.team1.server)
                        = HybridHalfDelta(k3, actual,
                              QShare((get_r(pre, m.team1.server) + get_r(pre, m.team1.partner)) \div 2,
                                     (get_r(pre, m.team2.receiver) + get_r(pre, m.team2.partner)) \div 2))

\* the names of a match are all different
DistinctNames(m) == Cardinality({Names(m)[i] : i \in 1..Len(Names(m))}) = Len(Names(m))

\* the score field of a winloss-encoded match is the 1-0 or 0-1 the parser
\* writes
ParsedScore(m) == m.result_type = "winloss" => Score1(m) + Score2(m) = 1

\* C23: in the hybrid pass the K-factor of a match is 32 * (1 + min(margin /
\* 3, 2)) when the match is score-encoded and 32 when it is winloss-encoded,
\* so that it lies between 32 and 96 and is 96 for every margin of 6 or more.
C23_KFactorByEncoding ==
    LET hchron == HybridChron(data)
        htr == HybridTrace(hchron)
    IN  \A n \in 1..Len(hchron) :
            LET m == hchron[n].match
            IN  DistinctNames(m) =>
                    /\ MovedWithK3(hchron, htr, n, EncodedK3(m))
                    /\ EncodedK3(m) >= 3 * base_k /\ EncodedK3(m) <= 9 * base_k
                    /\ (m.result_type = "score" /\ ScoreDifference(m) >= 6)
                           => EncodedK3(m) = 9 * base_k

\* C23 for the matches whose score field is as the parser wrote it
C23_KFactorAsParsed ==
    LET hchron == HybridChron(data)
        htr == HybridTrace(hchron)
    IN  \A n \in 1..Len(hchron) :
            LET m == hchron[n].match
            IN  DistinctNames(m) /\ ParsedScore(m) =>
                    MovedWithK3(hchron, htr, n, EncodedK3(m))

(***************************************************************************)
(* C24                                                                     *)
(***************************************************************************)
\* window sizes below, at and above the length of a log
Windows == {0, 1, 2, elo_window}

\* the names of the n-th match of hchron when the hybrid pass folds it
FoldedNames(hchron, n) ==
    IF AllGiven(hchron[n].match)
    THEN {Names(hchron[n].match)[i] : i \in 1..Len(Names(hchron[n].match))}
    ELSE {}

Unrecognised(m) ==
    /\ m.result_type = "winloss"
    /\ m.result_value \notin (IF IsSingles(m) THEN {"W", "L", "P1", "P2"}
                              ELSE {"W", "L", "T1", "T2"})

\* the match with the id of m leaves the ratings of each pass, and in the
\* baseline pass the matches_played counters, as they were
SkippedByAll(chron, tr, echron, hchron, htr, m) ==
    /\ \A i \in 1..Len(chron) :
           chron[i].match.id = m.id =>
               /\ tr[i + 1].ratings = tr[i].ratings
               /\ tr[i + 1].matches_played = tr[i].matches_played
    /\ \A i \in 1..Len(echron) :
           echron[i].match.id = m.id =>
               ExpFold(echron, i).ratings = ExpFold(echron, i - 1).ratings
    /\ \A i \in 1..Len(hchron) :
           hchron[i].match.id = m.id => htr[i + 1] = htr[i]

\* C25: a match whose result is not recognised changes no rating and no
\* matches_played counter in the baseline pass, in the expected-map pass and
\* in the hybrid pass, and each pass goes on with the next match: a later
\* match with a recognised result is folded.
C25_UnrecognisedSkipped ==
    LET chron == Chron
        tr == FoldTrace(chron)
        echron == ExpectedChron(data)
        hchron == HybridChron(data)
        htr == HybridTrace(hchron)
    IN  \A n \in 1..Len(hchron) :
            Unrecognised(hchron[n].match) =>
                /\ SkippedByAll(chron, tr, echron, hchron, htr, hchron[n].match)
                /\ \A k \in (n + 1)..Len(hchron) :
                       ~Unrecognised(hchron[k].match) /\ DistinctNames(hchron[k].match)
                           => /\ htr[k + 1] # htr[k]
                              /\ \A i \in 1..Len(chron) :
                                    chron[i].match.id = hchron[k].match.id => Folded(tr, i)

\* C25 without the hybrid pass: the baseline pass and the expected-map pass
\* skip a match whose result is not recognised
C25_SkippedByBaseline ==
    LET chron == Chron
        tr == FoldTrace(chron)
        echron == ExpectedChron(data)
    IN  \A n \in 1..Len(chron) :
            Unrecognised(chron[n].match) =>
                /\ tr[n + 1].ratings = tr[n].ratings
                /\ tr[n + 1].matches_played = tr[n].matches_played
                /\ \A i \in 1..Len(echron) :
                       echron[i].match.id = chron[n].match.id =>
                           ExpFold(echron, i).ratings = ExpFold(echron, i - 1).ratings
                /\ \A k \in (n + 1)..Len(chron) :
                       ~Unrecognised(chron[k].match) => Folded(tr, k)

(***************************************************************************)
(* C26                                                                     *)
(***************************************************************************)
\* the side a consumer credited with a match, from the value it holds for
\* the first player of side 1 and the one it holds for the first player of
\* side 2 after the match alone; 0 when it credited neither
Credited(v1, v2) == IF v1 > v2 THEN 1 ELSE IF v2 > v1 THEN 2 ELSE 0

\* the side get_player_stats counts the match as won by, in its tallies and
\* in its streaks
StatsWinner(m) ==
    LET stats == PlayerStatsStep([p \in Participants(m) |-> NewPlayerStats], m)
    IN  Credited(stats[Side1(m)[1]].total_won, stats[Side2(m)[1]].total_won)

StreakWinner(m) ==
    LET stats == PlayerStatsStep([p \in Participants(m) |-> NewPlayerStats], m)
    IN  Credited(stats[Side1(m)[1]].current_streak, stats[Side2(m)[1]].current_streak)

\* the side get_team_dynamics counts a doubles match as won by
TeamWinner(m) ==
    LET partnerships == TeamStep(EmptyDict, m)
    IN  Credited(partnerships[PairKey(m.team1.server, m.team1.partner)].won,
                 partnerships[PairKey(m.team2.receiver, m.team2.partner)].won)

\* the side get_head_to_head_singles counts a singles match as won by
H2HWinner(m) ==
    LET key == PairKey(m.player1, m.player2)
        rec == H2HStep(EmptyDict, m)[key]
    IN  IF m.player1 = key[1] THEN Credited(rec.wins_p1, rec.wins_p2)
        ELSE Credited(rec.wins_p2, rec.wins_p1)

\* the side whose rating the hybrid pass and the baseline pass raise
HybridWinner(m) ==
    LET elo == HybridStep(HybridInit, m)
    IN  Credited(get_r(elo.overall, Side1(m)[1]), get_r(elo.overall, Side2(m)[1]))

BaselineWinner(m) ==
    LET st == EloStep(EloInit, m)
    IN  Credited(get_r(st.ratings.overall, Side1(m)[1]),
                 get_r(st.ratings.overall, Side2(m)[1]))

\* the entries of the upset lists for a match name the side as winner
UpsetNames(item, expected_map, side) ==
    \A kind \in {"singles", "doubles"} :
        LET found == UpsetOf(item, expected_map, kind)
            named == IF side = 1 THEN Side1(item.match) ELSE Side2(item.match)
        IN  found # <<>> =>
                found[1].winner = (IF kind = "singles" THEN named[1] ELSE named)

\* every consumer credits the side with the match
SameWinner(item, expected_map, side) ==
    LET m == item.match
    IN  /\ StatsWinner(m) = side
        /\ StreakWinner(m) = side
        /\ IsDoubles(m) => TeamWinner(m) = side
        /\ IsSingles(m) => H2HWinner(m) = side
        /\ HybridWinner(m) = side
        /\ BaselineWinner(m) = side
        /\ UpsetNames(item, expected_map, side)

\* C26: for every winloss-encoded match the player tallies and streaks, the
\* team dynamics, the head-to-head records, the upset lists, the hybrid pass
\* and the baseline pass credit the side the indicator names as the winner,
\* whatever the score field holds.
C26_WinnerByIndicator ==
    LET flat == Flatten(data)
        expected_map == get_match_expected_map(data)
    IN  \A n \in 1..Len(flat) :
            LET m == flat[n].match
            IN  m.result_type = "winloss" /\ DistinctNames(m) /\ ~Unrecognised(m)
                    => SameWinner(flat[n], expected_map, WinnerSide(m))

\* C26 for the matches whose score field is the 1-0 or 0-1 the parser writes
\* for the indicator
C26_WinnerAsParsed ==
    LET flat == Flatten(data)
        expected_map == get_match_expected_map(data)
    IN  \A n \in 1..Len(flat) :
            LET m == flat[n].match
            IN  (/\ m.result_type = "winloss" /\ DistinctNames(m) /\ ~Unrecognised(m)
                 /\ Score1(m) + Score2(m) = 1
                 /\ (Score1(m) = 1) = (WinnerSide(m) = 1))
                    => SameWinner(flat[n], expected_map, WinnerSide(m))

(***************************************************************************)
(* C27                                                                     *)
(***************************************************************************)
\* a rating of a history series, which is in tenths of a point, in the units
\* of the ratings
HistoryRating(entry) == entry.rating * (Scale \div 10)

\* C27: in the report of get_all_statistics, in every context, the last
\* point of the history series of an entity is the rating that
\* current_ratings holds for it, the one of the hybrid pass.
C27_LastPointIsCurrent ==
    (response.fn = "get_all_statistics" /\ response.value.error = "") =>
        \A mode \in Modes :
            LET elo == response.value.elo_ratings[mode]
            IN  \A p \in DOMAIN elo.history :
                    /\ p \in DOMAIN elo.current_ratings
                    /\ HistoryRating(elo.history[p][Len(elo.history[p])])
                           = elo.current_ratings[p]

\* every entity with a history series has a current rating, and the last
\* point of the series is the rounded rating of the baseline pass
C27_LastPointIsBaseline ==
    (response.fn = "get_all_statistics" /\ response.value.error = "") =>
        \A mode \in Modes :
            LET elo == response.value.elo_ratings[mode]
                baseline == get_elo_ratings_and_history(data).result[mode]
            IN  \A p \in DOMAIN elo.history :
                    /\ p \in DOMAIN elo.current_ratings
                    /\ elo.history[p][Len(elo.history[p])].rating
                           = baseline.current_ratings[p]

(***************************************************************************)
(* C28                                                                     *)
(***************************************************************************)
\* the entities the baseline pass counted MIN_MATCHES matches or more for in
\* a context
Eligible(st, mode) ==
    {p \in DOMAIN st.matches_played[mode] : st.matches_played[mode][p] >= MIN_MATCHES}

\* C28: in the report of get_all_statistics the keys of current_ratings of a
\* context are the entities with 3 or more matches counted by the baseline
\* pass in the context, each of them has a rating of the hybrid pass in the
\* same context, and that rating is the value: the fallback to the overall
\* rating of the hybrid pass or to 1500 is never taken.
C28_CurrentRatingsKeys ==
    (response.fn = "get_all_statistics" /\ response.value.error = "") =>
        LET st == EloFold(Chron, Len(Chron))
            hybrid_ratings == get_hybrid_elo_ratings(data, elo_window)
        IN  \A mode \in Modes :
                LET current == response.value.elo_ratings[mode].current_ratings
                IN  /\ DOMAIN current = Eligible(st, mode)
                    /\ \A p \in DOMAIN current :
                          /\ p \in DOMAIN hybrid_ratings[mode]
                          /\ current[p] = hybrid_ratings[mode][p]

\* a report with a player whose current rating of the singles context is
\* neither its overall rating of the hybrid pass, nor 1500, nor its rating
\* of the baseline pass
C28_Witness ==
    /\ response.fn = "get_all_statistics" /\ response.value.error = ""
    /\ \E p \in DOMAIN response.value.elo_ratings.singles.current_ratings :
          LET current == response.value.elo_ratings.singles.current_ratings[p]
              hybrid_ratings == get_hybrid_elo_ratings(data, elo_window)
              st == EloFold(Chron, Len(Chron))
          IN  /\ current # Get(hybrid_ratings.overall, p, DefaultRating)
              /\ current # DefaultRating
              /\ current # st.ratings.singles[p]

(***************************************************************************)
(* C29                                                                     *)
(***************************************************************************)
\* the matches of all the day entries of the log that carry the date
MatchesOn(date) ==
    SelectSeq(Flatten(data), LAMBDA item : item.date = date)

\* the points of those matches
PointsOn(date) ==
    SeqSum([i \in 1..Len(MatchesOn(date)) |->
               Score1(MatchesOn(date)[i].match) + Score2(MatchesOn(date)[i].match)])

\* the counts of the report are those of the operator totals
TemporalTotals(temporal, matches_on(_), points_on(_)) ==
    LET series == temporal.time_series
    IN  /\ \A date \in DOMAIN temporal.matches_by_date :
              temporal.matches_by_date[date] = matches_on(date)
        /\ \A i \in 1..Len(series.dates) :
              /\ series.match_counts[i] = matches_on(series.dates[i])
              /\ series.point_counts[i] = points_on(series.dates[i])
        /\ temporal.most_active_date # None =>
              \A i \in 1..Len(data) :
                  matches_on(data[i].date) <= matches_on(temporal.most_active_date)

\* C29: for every date, matches_by_date and the points per date that
\* get_temporal_analysis returns are the totals over all the day entries of
\* the log with the date, also when several entries share it, and
\* most_active_date is a date with the largest number of matches.
C29_TotalsPerDate ==
    (response.fn = "get_all_statistics" /\ response.value.error = "") =>
        TemporalTotals(response.value.temporal_analysis,
                       LAMBDA date : Len(MatchesOn(date)), PointsOn)

\* no two day entries of the log carry the same date
OneEntryPerDate ==
    \A i \in 1..Len(data) : \A j \in 1..Len(data) :
        data[i].date = data[j].date => i = j

\* C29 for the logs in which no two day entries share a date
C29_TotalsOneEntryPerDate ==
    (response.fn = "get_all_statistics" /\ response.value.error = "" /\ OneEntryPerDate) =>
        TemporalTotals(response.value.temporal_analysis,
                       LAMBDA date : Len(MatchesOn(date)), PointsOn)

(***************************************************************************)
(* C30                                                                     *)
(***************************************************************************)
\* the same doubles match recorded with team 1 and team 2 exchanged, the
\* scores with them
ExchangeSides(m) ==
    [m EXCEPT !.team1 = [server |-> m.team2.receiver, partner |-> m.team2.partner],
              !.team2 = [receiver |-> m.team1.server, partner |-> m.team1.partner],
              !.score.team1 = m.score.team2,
              !.score.team2 = m.score.team1]

\* the same doubles match recorded with the two members of team 1, or of
\* team 2, exchanged
ExchangeTeam1(m) == [m EXCEPT !.team1 = [server |-> m.team1.partner, partner |-> m.team1.server]]
ExchangeTeam2(m) == [m EXCEPT !.team2 = [receiver |-> m.team2.partner, partner |-> m.team2.receiver]]

\* wins <= matches in every configuration and in every player pairing
WinsWithinMatches(st) ==
    /\ \A key \in DOMAIN st.match_groups :
          \A config \in DOMAIN st.match_groups[key].configurations :
              st.match_groups[key].configurations[config].wins
                  <= st.match_groups[key].configurations[config].matches
    /\ \A server \in DOMAIN st.player_pairs :
          \A receiver \in DOMAIN st.player_pairs[server] :
              st.player_pairs[server][receiver].wins
                  <= st.player_pairs[server][receiver].matches

\* the n-th match of the log, for which accepted(m) holds, leaves the groups
\* and their configurations as each of its exchanged records would; a
\* winloss record leaves all the counters as they were; wins <= matches
ServingIndependent(accepted(_)) ==
    LET flat == Flatten(data)
        tr == ServingTrace(flat, Len(flat))
    IN  \A n \in 1..Len(flat) :
            LET m == flat[n].match
            IN  /\ (IsDoubles(m) /\ AllGiven(m) /\ m.result_type = "score" /\ accepted(m)) =>
                      /\ tr[n + 1].match_groups # tr[n].match_groups
                      /\ \A x \in {ExchangeSides(m), ExchangeTeam1(m), ExchangeTeam2(m)} :
                            ServingStep(tr[n], x).match_groups = tr[n + 1].match_groups
                /\ m.result_type # "score" => tr[n + 1] = tr[n]
                /\ WinsWithinMatches(tr[n + 1])

\* C30: in get_doubles_serving_stats a score-encoded doubles match recorded
\* with the two teams exchanged, or with the two members of a team
\* exchanged, adds to 'matches' of the same configuration and to 'wins' of
\* the same pair; a winloss-encoded match changes no serving statistic, and
\* wins <= matches in every configuration and every player pairing.
C30_ServingSideIndependent == ServingIndependent(LAMBDA m : TRUE)

\* C30 for the doubles matches that one team won
C30_ServingOfWonMatches ==
    ServingIndependent(LAMBDA m : m.score.team1 # m.score.team2)

====
